---- MODULE Spec2Model ----
(***************************************************************************)
(* Model of the Trini movie-recommendation lambda (ibanezbetes/trinity).   *)
(*                                                                         *)
(*   Spec    the retrieval cascade, MovieSearchService                     *)
(*           .search_movies_with_filters, one search call per behaviour    *)
(*   SpecAI  AIPromptGenerator.process_ai_response, one model output and   *)
(*           one query per behaviour                                       *)
(*                                                                         *)
(* Numbers.  Ratings are in tenths (64 is 6.4).  Component scores are in   *)
(* units of 1/10000 (10000 is 1.0), relevance scores in units of 1/1000000 *)
(* (One is 1.0), confidences in units of 1/10000, years are years.         *)
(* A value of 0 in min_year, max_year or min_rating stands for Python's    *)
(* None: the search code only tests these fields for truthiness.           *)
(***************************************************************************)
EXTENDS Integers, Sequences, FiniteSets, TLC

VARIABLES
    \* ---- search_movies_with_filters ----
    filters,        \* the ExtractedFilters given to the search call
    limit,          \* the limit given to the search call
    cache,          \* contents of the movie cache table: cache key -> movies
    hashSalt,       \* the per-process seed of Python's str hash
    pc,             \* position of the search call
    attempt,        \* loop variable of _invoke_movie_lambda_with_retry
    payload,        \* payload built for the remote search capability
    invocations,    \* number of calls of _invoke_movie_lambda so far
    failures,       \* number of those calls that raised
    attempted,      \* tiers attempted so far, in order
    validated,      \* number of validated results each tier yielded
    scored,         \* outcome of each tier's scoring step
    result,         \* the list returned to the caller
    transformed,    \* the primary tier's scored list, before and after the floor
    raised,         \* TRUE iff the call raised to its caller
    \* ---- process_ai_response ----
    aiResponse,     \* the raw model output
    userQuery,      \* the user's query, a sequence of words
    aipc,           \* position of the process_ai_response call
    outFilters,     \* the ExtractedFilters it returned
    validation,     \* what _parse_and_validate_json_response yielded
    firstFilters,   \* the filters of the first submission, once resubmitted
    round,          \* 1 for the model's reply, 2 for the resubmitted filters
    response,       \* what the query handler answered
    \* ---- _validate_and_normalize_movie_data ----
    movie_data,         \* the raw candidate record
    normalized_movie,   \* the record normalization returned
    \* ---- handler, process_query ----
    event,              \* the event the Lambda runtime hands over
    hpc,                \* position of the handler call
    reply,              \* what the handler returned
    \* ---- RateLimiter and the rate-limited branch of _handle_ask_trini ----
    clock,              \* time.time() in seconds
    user_requests,      \* RateLimiter.user_requests, user -> request times
    admitted,           \* history, user -> times of the requests admitted so far
    rejectedAt,         \* history, user -> time of the last rejected request or Null
    lastCall,           \* the last is_rate_limited call and what it decided
    answer,             \* what process_query answered to that request
    \* ---- ChatSession.add_message and SessionService.save_chat_session ----
    messages,           \* ChatSession.messages
    added,              \* history, every message handed to add_message in order
    item,               \* the item save_chat_session last put into the table
    save_success,       \* what the last save_chat_session returned
    savedAfter,         \* history, how many messages had been added when item was put
    \* ---- the cache tier run on given candidates ----
    tier_filters,       \* the ExtractedFilters the cache tier works with
    unique_movies,      \* the candidate records the tier filters, as they are now
    tier_limit,         \* the limit of the tier
    given,              \* history, the filters and records as they were handed over
    runs,               \* history, what each run of the tier returned
    \* ---- RoomService.add_recommendation_to_room ----
    contentIds,         \* the contentIds list of the room item in the rooms table
    room_status,        \* the status of the room item
    room_matches,       \* the movie ids with a record in the room matches table
    request             \* request -> its movie, whether its user is a member, its position and the success it returned

vars == <<filters, limit, cache, hashSalt, pc, attempt, payload, invocations,
          failures, attempted, validated, scored, result, transformed, raised,
          aiResponse, userQuery, aipc, outFilters, validation,
          firstFilters, round, response,
          movie_data, normalized_movie,
          event, hpc, reply,
          clock, user_requests, admitted, rejectedAt, lastCall, answer,
          messages, added, item, save_success, savedAfter,
          tier_filters, unique_movies, tier_limit, given, runs,
          contentIds, room_status, room_matches, request>>

searchVars == <<filters, limit, cache, hashSalt, pc, attempt, payload,
                invocations, failures, attempted, validated, scored, result,
                transformed, raised>>

aiVars == <<aiResponse, userQuery, aipc, outFilters, validation,
           firstFilters, round, response>>

normVars == <<movie_data, normalized_movie>>

handlerVars == <<event, hpc, reply>>

rateVars == <<clock, user_requests, admitted, rejectedAt, lastCall, answer>>

chatVars == <<messages, added, item, save_success, savedAfter>>

tierVars == <<tier_filters, unique_movies, tier_limit, given, runs>>

roomVars == <<contentIds, room_status, room_matches, request>>

\* what each operation leaves alone: the state of the other operations
otherThanSearch == <<aiVars, normVars, handlerVars, rateVars, chatVars, tierVars, roomVars>>
otherThanAI == <<searchVars, normVars, handlerVars, rateVars, chatVars, tierVars, roomVars>>
otherThanNorm == <<searchVars, aiVars, handlerVars, rateVars, chatVars, tierVars, roomVars>>
otherThanHandler == <<searchVars, aiVars, normVars, rateVars, chatVars, tierVars, roomVars>>
otherThanRate == <<searchVars, aiVars, normVars, handlerVars, chatVars, tierVars, roomVars>>
otherThanChat == <<searchVars, aiVars, normVars, handlerVars, rateVars, tierVars, roomVars>>
otherThanTier == <<searchVars, aiVars, normVars, handlerVars, rateVars, chatVars, roomVars>>
otherThanRoom == <<searchVars, aiVars, normVars, handlerVars, rateVars, chatVars, tierVars>>

(***************************************************************************)
(* Bounds of the model                                                     *)
(***************************************************************************)
MaxAdmitted == 6    \* the rate limiter admits at most MaxAdmitted requests in all
MaxClock == 120     \* the clock runs from 0 to MaxClock seconds
MaxMessages == 12   \* add_message is called at most MaxMessages times
MaxLimit == 3       \* limits 1..MaxLimit are tried
MaxRequests == 2    \* add_recommendation_to_room requests under way at once
MaxResp == 6        \* a remote response holds at most MaxResp movies
MaxRuns == 2        \* the tier is run at most MaxRuns times on the same records
MaxSalt == 2        \* hash seeds 0..MaxSalt-1 are tried

(***************************************************************************)
(* Small helpers                                                           *)
(***************************************************************************)
Min(a, b) == IF a <= b THEN a ELSE b
Max(a, b) == IF a >= b THEN a ELSE b

RECURSIVE SeqSum(_)
SeqSum(s) == IF s = <<>> THEN 0 ELSE Head(s) + SeqSum(Tail(s))

Range(s) == {s[i] : i \in 1..Len(s)}

\* Python's s[:n]
Take(s, n) == SubSeq(s, 1, Min(Len(s), Max(n, 0)))

RECURSIVE Concat(_)
Concat(ss) == IF ss = <<>> THEN <<>> ELSE Head(ss) \o Concat(Tail(ss))

(***************************************************************************)
(* Data: ExtractedFilters, candidate movies                                *)
(***************************************************************************)
One == 1000000
Unit == 10000

NonStr == "<int>"           \* a keyword entry that is not a str
IsStr(k) == k # NonStr

NoneRange == [some |-> FALSE, min_year |-> 0, max_year |-> 0]
YearRange(lo, hi) == [some |-> TRUE, min_year |-> lo, max_year |-> hi]

ExtractedFilters(g, yr, rmin, kw, ex) ==
    [genres |-> g, year_range |-> yr, min_rating |-> rmin,
     keywords |-> kw, exclude_ids |-> ex]

\* A raw candidate record.  title: "ok", "missing" (absent or empty) or
\* "nonstr" (a number).  genres: the genre ids of its metadata.  hits: for
\* each genre, how many of the genre's content keywords occur in title and
\* overview.  year: release year, 0 when there is no release date.
\* rating: tenths, or BadRating for a value float() rejects.
\* kwT, kwO: the query keywords occurring in title, in overview.
BadRating == -1

Movie(i, t, g, h28, h35, y, r, v, kt, ko) ==
    [id |-> i, title |-> t, genres |-> g,
     hits |-> [c \in {"28", "35", "18"} |->
                 IF c = "28" THEN h28 ELSE IF c = "35" THEN h35 ELSE 0],
     year |-> y, rating |-> r, votes |-> v, kwT |-> kt, kwO |-> ko,
     cache_score |-> -1]

Pool ==
    << Movie(100, "ok", {"35"},       0, 2, 2014, 64, 800,  {},         {}),
       Movie(200, "ok", {"35", "28"}, 1, 1, 2015, 81, 2000, {"marvel"}, {}),
       Movie(300, "ok", {"35"},       0, 1, 1995, 31, 20,   {},         {"marvel"}),
       Movie(400, "ok", {},           0, 1, 2018, 55, 60,   {},         {}),
       Movie(500, "ok", {"28"},       2, 0, 2020, 72, 1500, {"marvel"}, {"guerra"}),
       Movie(600, "ok", {"35"},       0, 1, 2011, 20, 10,   {},         {}),
       Movie(700, "ok", {"35"},       0, 1, 0,    75, 90,   {},         {}),
       Movie(800, "nonstr", {"35"},   0, 1, 2012, 66, 10,   {},         {}),
       Movie(900, "ok", {"35"},       0, 1, 2013, BadRating, 10, {},    {}) >>

(***************************************************************************)
(* _calculate_relevance_score and its components                           *)
(***************************************************************************)
\* abs(hash(movie_id + title)) % 100: Python salts str hashes per process,
\* so the value is fixed within a process and differs between processes.
VariationSeed(m) ==
    ((m.id \div 100) * 37 + (m.id % 100) * 7 + hashSalt * 41 + 13) % 100

\* float(movie.get('rating', movie.get('vote_average', 0))) raises ValueError
\* for a non-numeric value
FloatRaises(m) == m.rating = BadRating

_calculate_genre_match_score(m, f) ==
    IF f.genres = <<>> THEN 5000
    ELSE IF m.genres # {}
         THEN (Cardinality(m.genres \cap Range(f.genres)) * Unit)
                  \div Cardinality(Range(f.genres))
         ELSE 9000

_calculate_rating_score(m) ==
    LET r == m.rating IN
    IF r <= 0 THEN 3000
    ELSE IF r >= 80 THEN Unit
    ELSE IF r >= 70 THEN 8000 + (r - 70) * 200
    ELSE IF r >= 60 THEN 6000 + (r - 60) * 200
    ELSE IF r >= 50 THEN 4000 + (r - 50) * 200
    ELSE r * 80

\* distance penalty of perYear per year, at most maxPenalty, floor at floor
YearPenalty(distance, perYear, maxPenalty, floor) ==
    Max(Unit - Min(distance * perYear, maxPenalty), floor)

YearProximity(year, yr, perYear, maxPenalty, floor) ==
    IF yr.min_year # 0 /\ yr.max_year # 0
    THEN IF yr.min_year <= year /\ year <= yr.max_year THEN Unit
         ELSE YearPenalty(IF year < yr.min_year THEN yr.min_year - year
                          ELSE year - yr.max_year, perYear, maxPenalty, floor)
    ELSE IF yr.min_year # 0
    THEN IF year >= yr.min_year THEN Unit
         ELSE YearPenalty(yr.min_year - year, perYear, maxPenalty, floor)
    ELSE IF yr.max_year # 0
    THEN IF year <= yr.max_year THEN Unit
         ELSE YearPenalty(year - yr.max_year, perYear, maxPenalty, floor)
    ELSE 5000

_calculate_year_proximity_score(m, f) ==
    IF ~f.year_range.some THEN 5000
    ELSE IF m.year = 0 THEN 3000
    ELSE YearProximity(m.year, f.year_range, 1000, 9000, 1000)

\* keyword.lower() raises AttributeError for an entry that is not a str
KeywordsRaise(f) == \E i \in 1..Len(f.keywords) : ~IsStr(f.keywords[i])

_calculate_keyword_relevance_score(m, f) ==
    IF f.keywords = <<>> THEN 5000
    ELSE LET inTitle(k) == k \in m.kwT
             inOverview(k) == k \notin m.kwT /\ k \in m.kwO
             title_matches == Len(SelectSeq(f.keywords, inTitle))
             overview_matches == Len(SelectSeq(f.keywords, inOverview))
         IN Min((title_matches * Unit + overview_matches * 6000)
                    \div Len(f.keywords), Unit)

_calculate_popularity_score(m) ==
    IF m.rating >= 70 /\ m.votes >= 1000 THEN Unit
    ELSE IF m.rating >= 65 /\ m.votes >= 500 THEN 8000
    ELSE IF m.rating >= 60 /\ m.votes >= 100 THEN 6000
    ELSE IF m.votes >= 50 THEN 4000
    ELSE 2000

\* the final bounds step: max(0.1, min(final_score, 1.0))
ClampScore(s) == Max(One \div 10, Min(s, One))

\* the x0.7 penalty for a rating strictly between 0 and 4
LowRatingPenalty(m, s) ==
    IF m.rating > 0 /\ m.rating < 40 THEN (s * 7) \div 10 ELSE s

\* TRUE iff _calculate_relevance_score raises on this candidate
RelevanceRaises(m, f) ==
    \/ FloatRaises(m)
    \/ (f.keywords # <<>> /\ (m.title = "nonstr" \/ KeywordsRaise(f)))

_calculate_relevance_score(m, f) ==
    LET score == 35 * _calculate_genre_match_score(m, f)
               + 25 * _calculate_rating_score(m)
               + 20 * _calculate_year_proximity_score(m, f)
               + 15 * _calculate_keyword_relevance_score(m, f)
               +  5 * _calculate_popularity_score(m)
        normalized == Min(score, One)
        seed == VariationSeed(m)
        variation == seed * 1500
        varied == IF seed % 2 = 0 THEN normalized + variation
                  ELSE normalized - variation
    IN LowRatingPenalty(m, ClampScore(varied))

(***************************************************************************)
(* MovieRecommendation and sorting                                         *)
(***************************************************************************)
MovieRecommendation(m, score, src) ==
    [id |-> m.id, relevance_score |-> score, source |-> src]

\* variant: ascending order
ScoreBeforeAscending(a, b) == a.relevance_score <= b.relevance_score

\* "reverse=True": a stays ahead of b
ScoreBefore(a, b) == a.relevance_score >= b.relevance_score

\* list.sort(key=relevance_score, reverse=True): stable, descending
RECURSIVE InsertDesc(_, _)
InsertDesc(r, s) ==
    IF s = <<>> THEN <<r>>
    ELSE IF ScoreBefore(Head(s), r)
         THEN <<Head(s)>> \o InsertDesc(r, Tail(s))
         ELSE <<r>> \o s

RECURSIVE SortByScore(_)
SortByScore(s) ==
    IF s = <<>> THEN <<>>
    ELSE LET n == Len(s) IN InsertDesc(s[n], SortByScore(SubSeq(s, 1, n - 1)))

(***************************************************************************)
(* Tier 1 and 2: remote search, quality gate, scoring                      *)
(***************************************************************************)
\* variant: one more retry
max_retries_plus_one == 2 + 1

max_retries == 2

\* the payload handed to the remote search capability
_transform_filters_to_lambda_payload(f, lim) ==
    [genreIds |-> f.genres,
     limit |-> lim * 2,
     excludeIds |-> f.exclude_ids,
     keywords |-> Take(f.keywords, 3)]

_calculate_content_genre_match(m, f) ==
    IF f.genres = <<>> THEN Unit
    ELSE LET genre_score(g) == IF m.hits[g] > 0
                               THEN Min(m.hits[g] * 3000, Unit) ELSE 0
             total_score == SeqSum([i \in 1..Len(f.genres) |->
                                       genre_score(f.genres[i])])
         IN Min(total_score \div Len(f.genres), Unit)

\* a candidate survives the quality gate
PassesTitleAndGenre(m, f) ==
    /\ m.title = "ok"
    /\ f.genres # <<>> => _calculate_content_genre_match(m, f) >= 3000

PassesQualityGate(m, f) ==
    /\ PassesTitleAndGenre(m, f)
    /\ f.keywords # <<>> => _calculate_keyword_relevance_score(m, f) >= 1000

\* the gate has no try/except: len(title.strip()) raises on a title that is
\* not a str, keyword.lower() on a keyword that is not a str
QualityGateRaises(movies, f) ==
    \E i \in 1..Len(movies) :
        \/ movies[i].title = "nonstr"
        \/ /\ PassesTitleAndGenre(movies[i], f)
           /\ f.keywords # <<>>
           /\ KeywordsRaise(f)

_validate_movie_results_quality(movies, f) ==
    LET keep(m) == PassesQualityGate(m, f) IN SelectSeq(movies, keep)

\* genre and year part of the strict filter, reached before the rating part
PassesStrictGenreYear(m, f) ==
    /\ f.genres # <<>> =>
           /\ m.genres # {}
           /\ m.genres \cap Range(f.genres) # {}
    /\ f.year_range.some =>
           /\ m.year # 0
           /\ f.year_range.min_year # 0 => m.year >= f.year_range.min_year
           /\ f.year_range.max_year # 0 => m.year <= f.year_range.max_year

PassesStrictFilter(m, f) ==
    /\ PassesStrictGenreYear(m, f)
    /\ f.min_rating # 0 => m.rating >= f.min_rating

\* float(rating) of the strict filter is outside any try/except
StrictFilterRaises(movies, f) ==
    \E i \in 1..Len(movies) :
        /\ PassesStrictGenreYear(movies[i], f)
        /\ f.min_rating # 0
        /\ FloatRaises(movies[i])

_apply_strict_client_side_filtering(movies, f) ==
    LET keep(m) == PassesStrictFilter(m, f) IN SelectSeq(movies, keep)

\* _validate_and_format_date keeps a date only when its year is plausible;
\* _meets_minimum_data_requirements rejects the empty date that is left
_meets_minimum_data_requirements(m) ==
    m.year # 0 /\ 1900 <= m.year /\ m.year <= 2030

\* scoring or reasoning raises inside the per-movie try: the movie is skipped
MovieProcessingRaises(m, f) ==
    \/ RelevanceRaises(m, f)
    \/ m.title = "nonstr"

\* variant: the floor already applies to five recommendations
QualityFloorFromFive(recs) ==
    IF Len(recs) >= 5
    THEN LET good(r) == r.relevance_score > (3 * One) \div 10
             quality_filtered == SelectSeq(recs, good)
         IN IF Len(quality_filtered) >= 3 THEN quality_filtered ELSE recs
    ELSE recs

\* quality floor of _transform_movies_to_recommendations
QualityFloor(recs) ==
    IF Len(recs) > 5
    THEN LET good(r) == r.relevance_score > (3 * One) \div 10
             quality_filtered == SelectSeq(recs, good)
         IN IF Len(quality_filtered) >= 3 THEN quality_filtered ELSE recs
    ELSE recs

\* the scored recommendations before sorting
ScoredRecommendations(movies, f) ==
    LET usable(m) == _meets_minimum_data_requirements(m)
                     /\ ~MovieProcessingRaises(m, f)
        kept == SelectSeq(movies, usable)
    IN [i \in 1..Len(kept) |->
           MovieRecommendation(kept[i], _calculate_relevance_score(kept[i], f),
                               "ai_recommendation")]

\* "recommendations.sort(key=lambda x: x.relevance_score, reverse=True)"
RankedRecommendations(movies, f) ==
    SortByScore(ScoredRecommendations(
        _apply_strict_client_side_filtering(movies, f), f))

_transform_movies_to_recommendations(movies, f) ==
    QualityFloor(RankedRecommendations(movies, f))

(***************************************************************************)
(* Tier 3: cached fallback                                                 *)
(***************************************************************************)
GenreCacheName(g) ==
    IF g = "28" THEN "action" ELSE IF g = "35" THEN "comedy"
    ELSE IF g = "18" THEN "drama" ELSE ""

GenreCacheKeys(g) ==
    IF GenreCacheName(g) = "" THEN <<>>
    ELSE << <<"movies_all", GenreCacheName(g)>>,
            <<"movies_popular", GenreCacheName(g)>>,
            <<"movies_top", GenreCacheName(g)>> >>

YearCacheKeys(yr) ==
    IF ~yr.some THEN <<>>
    ELSE IF yr.min_year # 0 /\ yr.min_year >= 2020
         THEN << <<"movies_recent", "">>, <<"movies_2020s", "">> >>
    ELSE IF yr.min_year # 0 /\ yr.min_year >= 2010
         THEN << <<"movies_2010s", "">>, <<"movies_modern", "">> >>
    ELSE IF yr.max_year # 0 /\ yr.max_year <= 2000
         THEN << <<"movies_classics", "">>, <<"movies_90s", "">> >>
    ELSE <<>>

KeywordCacheKeys(k) ==
    IF k = "marvel" THEN << <<"movies_superhero", "">>, <<"movies_marvel", "">> >>
    ELSE IF k = "guerra" THEN << <<"movies_war", "">>, <<"movies_history", "">> >>
    ELSE <<>>

GeneralCacheKeys ==
    << <<"movies_all", "popular">>, <<"movies_top_rated", "">>,
       <<"movies_trending", "">>, <<"movies_all", "action">>,
       <<"movies_all", "comedy">>, <<"movies_all", "drama">>,
       <<"movies_general", "">> >>

\* remove duplicates while preserving order
RECURSIVE UniqueKeys(_, _)
UniqueKeys(keys, seen) ==
    IF keys = <<>> THEN <<>>
    ELSE IF Head(keys) \in seen THEN UniqueKeys(Tail(keys), seen)
    ELSE <<Head(keys)>> \o UniqueKeys(Tail(keys), seen \cup {Head(keys)})

\* keyword.lower() on one of the first two keywords raises AttributeError
CacheKeyStrategyRaises(f) ==
    \E i \in 1..Min(Len(f.keywords), 2) : ~IsStr(f.keywords[i])

_build_cache_key_strategy(f) ==
    LET g2 == Take(f.genres, 2)
        k2 == Take(f.keywords, 2)
    IN UniqueKeys(
         Concat([i \in 1..Len(g2) |-> GenreCacheKeys(g2[i])])
         \o YearCacheKeys(f.year_range)
         \o Concat([i \in 1..Len(k2) |-> KeywordCacheKeys(k2[i])])
         \o GeneralCacheKeys, {})

\* cache_table.get_item; every failure of the lookup is turned into []
_get_cached_movies_from_dynamodb(key) ==
    IF key \in DOMAIN cache THEN cache[key] ELSE <<>>

\* the loop over the cache keys: [movies, number of successful keys]
RECURSIVE CollectCached(_, _, _, _)
CollectCached(keys, all, nkeys, lim) ==
    IF keys = <<>> THEN [movies |-> all, sources |-> nkeys]
    ELSE LET cached_movies == _get_cached_movies_from_dynamodb(Head(keys)) IN
         IF cached_movies = <<>>
         THEN CollectCached(Tail(keys), all, nkeys, lim)
         ELSE IF Len(all \o cached_movies) >= lim * 3
              THEN [movies |-> all \o cached_movies, sources |-> nkeys + 1]
              ELSE CollectCached(Tail(keys), all \o cached_movies,
                                 nkeys + 1, lim)

\* sum(1 for v in movie.values() if v)
Completeness(m) ==
    1 + (IF m.title # "missing" THEN 1 ELSE 0)
      + (IF m.genres # {} THEN 1 ELSE 0)
      + (IF m.year # 0 THEN 1 ELSE 0)
      + (IF m.rating # 0 THEN 1 ELSE 0)
      + (IF m.votes # 0 THEN 1 ELSE 0)

RECURSIVE _deduplicate_movies(_, _)
_deduplicate_movies(movies, unique) ==
    IF movies = <<>> THEN unique
    ELSE LET m == Head(movies)
             idx == {i \in 1..Len(unique) : unique[i].id = m.id}
         IN IF idx = {}
            THEN _deduplicate_movies(Tail(movies), Append(unique, m))
            ELSE LET i == CHOOSE j \in idx : TRUE IN
                 IF Completeness(m) > Completeness(unique[i])
                 THEN _deduplicate_movies(Tail(movies),
                                          [unique EXCEPT ![i] = m])
                 ELSE _deduplicate_movies(Tail(movies), unique)

_calculate_year_proximity_score_for_cache(year, yr) ==
    YearProximity(year, yr, 500, 8000, 2000)

\* number of criteria of the cache score and their sum
CacheCriteria(f) ==
    1 + (IF f.genres # <<>> THEN 1 ELSE 0)
      + (IF f.year_range.some THEN 1 ELSE 0)
      + (IF f.keywords # <<>> THEN 1 ELSE 0)

CacheScoreSum(m, f) ==
    LET inMovie(g) == g \in m.genres
        matches == Len(SelectSeq(f.genres, inMovie))
        genre == IF f.genres = <<>> THEN 0
                 ELSE IF m.genres # {} /\ matches > 0
                      THEN (matches * Unit) \div Len(f.genres)
                      ELSE 1000
        year == IF ~f.year_range.some THEN 0
                ELSE IF m.year # 0
                     THEN _calculate_year_proximity_score_for_cache(
                              m.year, f.year_range)
                     ELSE 1000
        inText(k) == k \in (m.kwT \cup m.kwO)
        keyword_matches == Len(SelectSeq(f.keywords, inText))
        keyword == IF f.keywords = <<>> THEN 0
                   ELSE IF keyword_matches > 0
                        THEN (keyword_matches * Unit) \div Len(f.keywords)
                        ELSE 1000
        quality == IF m.rating >= 70 THEN Unit
                   ELSE IF m.rating >= 60 THEN 8000
                   ELSE IF m.rating >= 50 THEN 6000
                   ELSE 3000
    IN genre + year + keyword + quality

CacheScore(m, f) == CacheScoreSum(m, f) \div CacheCriteria(f)

\* the enhanced filter has no try/except of its own
EnhancedFilteringRaises(movies, f) ==
    \E i \in 1..Len(movies) :
        \/ FloatRaises(movies[i])
        \/ f.keywords # <<>> /\ (movies[i].title = "nonstr" \/ KeywordsRaise(f))

\* variant: the filter adds its score to the one a record already has
MarkCacheScoreAdded(movies, f) ==
    [i \in 1..Len(movies) |->
        IF CacheScore(movies[i], f) >= 2000
        THEN [movies[i] EXCEPT !.cache_score =
                  CacheScore(movies[i], f) + Max(movies[i].cache_score, 0)]
        ELSE movies[i]]

\* the filter writes _cache_score into the movie records it keeps
MarkCacheScore(movies, f) ==
    [i \in 1..Len(movies) |->
        IF CacheScore(movies[i], f) >= 2000
        THEN [movies[i] EXCEPT !.cache_score = CacheScore(movies[i], f)]
        ELSE movies[i]]

\* stable sort of keyed entries [key, val], descending by key
RECURSIVE InsertByKey(_, _)
InsertByKey(e, s) ==
    IF s = <<>> THEN <<e>>
    ELSE IF Head(s).key >= e.key
         THEN <<Head(s)>> \o InsertByKey(e, Tail(s))
         ELSE <<e>> \o s

RECURSIVE SortByKey(_)
SortByKey(s) ==
    IF s = <<>> THEN <<>>
    ELSE LET n == Len(s)
         IN InsertByKey(s[n], SortByKey(SubSeq(s, 1, n - 1)))

Values(s) == [i \in 1..Len(s) |-> s[i].val]

\* keeps the movies at or above the threshold, best cache score first
_apply_enhanced_client_side_filtering(movies, f) ==
    LET marked == MarkCacheScore(movies, f)
        passed(m) == CacheScore(m, f) >= 2000
        filtered == SelectSeq(marked, passed)
    IN Values(SortByKey([i \in 1..Len(filtered) |->
                  [key |-> filtered[i].cache_score, val |-> filtered[i]]]))

_apply_relaxed_filtering(movies, f, target_count) ==
    LET movies_by_rating ==
            Values(SortByKey([i \in 1..Len(movies) |->
                  [key |-> movies[i].rating, val |-> movies[i]]]))
        relaxed_results == Take(movies_by_rating, target_count * 2)
        matchesGenre(m) == m.genres \cap Range(f.genres) # {}
        genre_filtered == SelectSeq(relaxed_results, matchesGenre)
    IN Take(IF f.genres # <<>> /\ Len(genre_filtered) >= target_count
            THEN genre_filtered ELSE relaxed_results, target_count * 2)

\* base score with the 5% cache penalty, blended with the cache score
CachedScore(m, f) ==
    LET cached_score == (_calculate_relevance_score(m, f) * 95) \div 100
    IN IF m.cache_score >= 0
       THEN (cached_score + m.cache_score * 100) \div 2
       ELSE cached_score

_transform_cached_movies_to_recommendations(movies, f) ==
    LET usable(m) == _meets_minimum_data_requirements(m)
                     /\ ~MovieProcessingRaises(m, f)
        kept == SelectSeq(movies, usable)
    IN SortByScore([i \in 1..Len(kept) |->
           MovieRecommendation(kept[i], CachedScore(kept[i], f),
                               "cached_fallback")])

\* lines 176-186: the enhanced filter, the relaxed filter on the records
\* the enhanced one has marked, and the transformation
FilterAndTransform(deduped, f, lim) ==
    LET marked == MarkCacheScore(deduped, f)
        strict == _apply_enhanced_client_side_filtering(deduped, f)
        filtered_movies ==
            IF Len(strict) < lim /\ Len(marked) > lim
            THEN _apply_relaxed_filtering(marked, f, lim)
            ELSE strict
    IN _transform_cached_movies_to_recommendations(Take(filtered_movies, lim), f)

\* the whole tier; any exception inside it is turned into []
_get_cached_movies_with_filtering(f, lim) ==
    IF CacheKeyStrategyRaises(f) THEN <<>>
    ELSE LET all_cached_movies ==
                 CollectCached(_build_cache_key_strategy(f), <<>>, 0, lim).movies
         IN IF all_cached_movies = <<>> THEN <<>>
            ELSE LET deduped == _deduplicate_movies(all_cached_movies, <<>>) IN
                 IF EnhancedFilteringRaises(deduped, f) THEN <<>>
                 ELSE FilterAndTransform(deduped, f, lim)

(***************************************************************************)
(* Tier 4: curated defaults, tier 5: emergency                             *)
(***************************************************************************)
\* the hash-derived numeric identity of a curated entry, whose source id is
\* not numeric: abs(hash(value)) % 999999
_safe_int_conversion(k) == 900000 + ((k * 7919 + hashSalt * 104729) % 99999)

Curated(k, g, y, r, ko) ==
    [id |-> _safe_int_conversion(k), title |-> "ok", genres |-> g,
     hits |-> [c \in {"28", "35", "18"} |-> 0],
     year |-> y, rating |-> r, votes |-> 0, kwT |-> {}, kwO |-> ko,
     cache_score |-> -1]

genre_specific_movies(g) ==
    IF g = "35"
    THEN << Curated(1, {"35", "10749"}, 2014, 64, {}),
            Curated(2, {"35", "10749"}, 2015, 53, {}),
            Curated(3, {"35", "10402"}, 2018, 61, {}),
            Curated(4, {"35"}, 2009, 31, {}),
            Curated(5, {"35", "28"}, 2011, 54, {}),
            Curated(6, {"35", "18"}, 2015, 62, {}),
            Curated(7, {"35", "28"}, 2018, 54, {}),
            Curated(8, {"35", "10751"}, 2019, 61, {}),
            Curated(9, {"35", "18"}, 2014, 81, {}),
            Curated(10, {"16", "35"}, 2014, 73, {}) >>
    ELSE IF g = "28" THEN << Curated(11, {"28", "12"}, 2015, 81, {}) >>
    ELSE IF g = "18" THEN << Curated(12, {"18", "53"}, 2009, 82, {}) >>
    ELSE <<>>

general_movies ==
    << Curated(13, {"16", "10751"}, 2017, 84, {}),
       Curated(14, {"14", "18"}, 2006, 82, {"guerra"}) >>

_get_smart_default_recommendations_with_scoring(f, lim) ==
    LET by_genre == Concat([i \in 1..Len(f.genres) |->
                               genre_specific_movies(f.genres[i])])
        selected_movies == IF by_genre = <<>> THEN general_movies ELSE by_genre
        usable(m) == ~RelevanceRaises(m, f)
        kept == SelectSeq(Take(selected_movies, lim), usable)
    IN SortByScore([i \in 1..Len(kept) |->
           MovieRecommendation(kept[i], _calculate_relevance_score(kept[i], f),
                               "smart_default")])

\* variant: the emergency recommendation carries the floor score 0.1
EmergencyScoreFloor == One \div 10

\* "relevance_score=0.0" of the emergency recommendation
EmergencyScore == 0

\* variant: the emergency tier has nothing to offer
EmptyEmergencyFallback == <<>>

_get_emergency_fallback_recommendation ==
    << [id |-> 0, relevance_score |-> EmergencyScore,
        source |-> "emergency_fallback"] >>

(***************************************************************************)
(* Inputs of one search call                                               *)
(***************************************************************************)
FilterCases ==
    { ExtractedFilters(<<>>, NoneRange, 0, <<>>, {}),
      ExtractedFilters(<<"35">>, NoneRange, 0, <<>>, {200}),
      ExtractedFilters(<<"35">>, YearRange(2010, 2019), 0, <<>>, {}),
      ExtractedFilters(<<"28", "35">>, NoneRange, 0, <<"marvel">>, {100}),
      ExtractedFilters(<<>>, NoneRange, 60, <<"marvel", "guerra">>, {500}),
      ExtractedFilters(<<"35">>, NoneRange, 60, <<>>, {}),
      ExtractedFilters(<<"18">>, YearRange(0, 1999), 0, <<>>, {300}),
      ExtractedFilters(<<>>, NoneRange, 0, <<NonStr>>, {}),
      ExtractedFilters(<<"18">>, YearRange(1950, 1960), 0, <<"guerra">>, {}) }

PoolIds == {Pool[i].id : i \in 1..Len(Pool)}

PoolMovie(i) == Pool[CHOOSE k \in 1..Len(Pool) : Pool[k].id = i]

\* the movies of the pool with an id in S, in pool order
Response(S) == LET chosen(m) == m.id \in S IN SelectSeq(Pool, chosen)

RemoteResponses ==
    {Response(S) : S \in {T \in SUBSET PoolIds : T # {} /\ Cardinality(T) <= MaxResp}}

EmptyCache == [k \in {} |-> <<>>]

CacheCases ==
    { EmptyCache,
      (<<"movies_all", "comedy">> :> Response({100, 200, 300}))
        @@ (<<"movies_all", "popular">> :>
               <<[PoolMovie(100) EXCEPT !.year = 0], PoolMovie(500)>>),
      (<<"movies_all", "popular">> :> Response({100, 200, 300, 400, 500, 600}))
        @@ (<<"movies_top_rated", "">> :> Response({200, 700, 800})),
      (<<"movies_general", "">> :> Response({100, 900})),
      (<<"movies_general", "">> :> Response({300, 600})) }

Tiers == {"primary", "cache", "curated", "emergency"}

(***************************************************************************)
(* search_movies_with_filters                                              *)
(***************************************************************************)
\* variant: one more validated result is asked for
MinValidMoviesPlusOne == 3 + 1

\* "if len(valid_movies) >= 3": enough quality results
MinValidMovies == 3

\* variant: the failure of a tier is raised to the caller
OnTierErrorPropagates(tier) == "raised"

\* "except Exception as <tier>_error: logger.warning(...)": the failure of a
\* tier is logged and the cascade goes on with the next tier
OnTierError(tier) ==
    IF tier = "primary" THEN "cache"
    ELSE IF tier = "cache" THEN "curated"
    ELSE "emergency"

\* variant: the primary tier returns all it scored
PrimaryReturnAll(recommendations, lim) == recommendations

\* "return recommendations[:limit]" of the primary tier
PrimaryReturn(recommendations, lim) == Take(recommendations, lim)

SearchInit ==
    /\ filters \in FilterCases
    /\ limit \in 1..MaxLimit
    /\ cache \in CacheCases
    /\ hashSalt \in 0..(MaxSalt - 1)
    /\ pc = "idle"
    /\ attempt = 0
    /\ payload = [genreIds |-> <<>>, limit |-> 0, excludeIds |-> {},
                  keywords |-> <<>>]
    /\ invocations = 0
    /\ failures = 0
    /\ attempted = <<>>
    /\ validated = [t \in Tiers |-> 0]
    /\ scored = [t \in Tiers |-> "not run"]
    /\ result = <<>>
    /\ transformed = [ranked |-> <<>>, recommendations |-> <<>>]
    /\ raised = FALSE

\* control leaves the primary tier through its except clause
PrimaryFails ==
    /\ pc' = OnTierError("primary")
    /\ raised' = (OnTierError("primary") = "raised")
    /\ result' = result

\* the call starts: the payload is built with twice the limit
StartSearch ==
    /\ UNCHANGED otherThanSearch
    /\ pc = "idle"
    /\ pc' = "invoke"
    /\ attempt' = 0
    /\ payload' = _transform_filters_to_lambda_payload(filters, limit * 2)
    /\ attempted' = Append(attempted, "primary")
    /\ UNCHANGED <<filters, limit, cache, hashSalt, failures, invocations,
                   validated, scored, result, transformed, raised>>

\* _invoke_movie_lambda raises
InvokeRaises ==
    /\ UNCHANGED otherThanSearch
    /\ pc = "invoke"
    /\ invocations' = invocations + 1
    /\ failures' = failures + 1
    /\ IF attempt = max_retries
       THEN PrimaryFails /\ attempt' = attempt
       ELSE /\ attempt' = attempt + 1
            /\ UNCHANGED <<pc, raised, result>>
    /\ UNCHANGED <<filters, limit, cache, hashSalt, payload, attempted,
                   validated, scored, transformed>>

\* _invoke_movie_lambda returns an empty list
InvokeEmpty ==
    /\ UNCHANGED otherThanSearch
    /\ pc = "invoke"
    /\ invocations' = invocations + 1
    /\ IF attempt = max_retries
       THEN /\ pc' = "cache"
            /\ attempt' = attempt
       ELSE /\ pc' = pc
            /\ attempt' = attempt + 1
    /\ UNCHANGED <<filters, limit, cache, hashSalt, failures, payload, attempted,
                   validated, scored, result, transformed, raised>>

\* _invoke_movie_lambda returns movies: quality gate, scoring, return
InvokeReturns ==
    /\ UNCHANGED otherThanSearch
    /\ pc = "invoke"
    /\ \E movies_data \in RemoteResponses :
         LET valid_movies == _validate_movie_results_quality(movies_data, filters)
             recommendations ==
                 _transform_movies_to_recommendations(valid_movies, filters)
         IN IF QualityGateRaises(movies_data, filters)
            THEN /\ PrimaryFails
                 /\ UNCHANGED <<validated, scored, transformed>>
            ELSE /\ validated' = [validated EXCEPT !["primary"] = Len(valid_movies)]
                 /\ transformed' =
                        IF /\ Len(valid_movies) >= MinValidMovies
                           /\ ~StrictFilterRaises(valid_movies, filters)
                        THEN [ranked |-> RankedRecommendations(valid_movies, filters),
                              recommendations |-> recommendations]
                        ELSE transformed
                 /\ IF Len(valid_movies) >= MinValidMovies
                    THEN IF StrictFilterRaises(valid_movies, filters)
                         THEN /\ PrimaryFails
                              /\ scored' = [scored EXCEPT !["primary"] = "raised"]
                         ELSE IF recommendations # <<>>
                         THEN /\ result' = PrimaryReturn(recommendations, limit)
                              /\ pc' = "done"
                              /\ scored' = [scored EXCEPT !["primary"] = "some"]
                              /\ raised' = raised
                         ELSE /\ pc' = "cache"
                              /\ scored' = [scored EXCEPT !["primary"] = "empty"]
                              /\ UNCHANGED <<result, raised>>
                    ELSE /\ pc' = "cache"
                         /\ UNCHANGED <<scored, result, raised>>
    /\ invocations' = invocations + 1
    /\ UNCHANGED <<filters, limit, cache, hashSalt, failures, attempt, payload, attempted>>

\* secondary fallback: cached movies
CacheTier ==
    /\ UNCHANGED otherThanSearch
    /\ pc = "cache"
    /\ attempted' = Append(attempted, "cache")
    /\ LET cached_recommendations ==
               _get_cached_movies_with_filtering(filters, limit)
       IN /\ validated' = [validated EXCEPT !["cache"] = Len(cached_recommendations)]
          /\ scored' = [scored EXCEPT !["cache"] =
                          IF cached_recommendations # <<>> THEN "some" ELSE "empty"]
          /\ IF cached_recommendations # <<>>
             THEN result' = cached_recommendations /\ pc' = "done"
             ELSE result' = result /\ pc' = "curated"
    /\ UNCHANGED <<filters, limit, cache, hashSalt, failures, attempt, payload,
                   invocations, transformed, raised>>

\* tertiary fallback: curated defaults
CuratedTier ==
    /\ UNCHANGED otherThanSearch
    /\ pc = "curated"
    /\ attempted' = Append(attempted, "curated")
    /\ LET default_recommendations ==
               _get_smart_default_recommendations_with_scoring(filters, limit)
       IN /\ validated' = [validated EXCEPT !["curated"] = Len(default_recommendations)]
          /\ scored' = [scored EXCEPT !["curated"] =
                          IF default_recommendations # <<>> THEN "some" ELSE "empty"]
          /\ IF default_recommendations # <<>>
             THEN result' = default_recommendations /\ pc' = "done"
             ELSE result' = result /\ pc' = "emergency"
    /\ UNCHANGED <<filters, limit, cache, hashSalt, failures, attempt, payload,
                   invocations, transformed, raised>>

\* emergency fallback, reached when every tier failed
EmergencyTier ==
    /\ UNCHANGED otherThanSearch
    /\ pc = "emergency"
    /\ attempted' = Append(attempted, "emergency")
    /\ result' = _get_emergency_fallback_recommendation
    /\ validated' = [validated EXCEPT !["emergency"] = 1]
    /\ scored' = [scored EXCEPT !["emergency"] = "some"]
    /\ pc' = "done"
    /\ UNCHANGED <<filters, limit, cache, hashSalt, failures, attempt, payload,
                   invocations, transformed, raised>>

(***************************************************************************)
(* FilterExtractor: extract_keywords_with_patterns                         *)
(*                                                                         *)
(* A query is a sequence of lower-case words.  The operators below say,    *)
(* word by word, what the regular expressions and tables of the source     *)
(* find in the words of Vocabulary and ScenarioQueries.                    *)
(***************************************************************************)
MaxQueryLen == 3    \* all queries of at most MaxQueryLen vocabulary words

Null == -1          \* Python's None in a numeric field of a model payload

Vocabulary ==
    {"algo", "de", "acción", "comedia", "española", "90", "buenas", "opinión"}

ScenarioQueries ==
    { <<"películas", "de", "acción", "de", "los", "90">>,
      <<"15", "estrellas">>,
      <<"películas", "de", "1995">>,
      <<"comedia", "española", "de", "los", "90">> }

RECURSIVE SeqsUpTo(_, _)
SeqsUpTo(S, n) ==
    IF n = 0 THEN {<<>>}
    ELSE LET shorter == SeqsUpTo(S, n - 1)
         IN shorter \cup {Append(q, w) : q \in shorter, w \in S}

Queries == SeqsUpTo(Vocabulary, MaxQueryLen) \cup ScenarioQueries

\* TMDB_GENRE_MAP substrings and GenreMapper's fuzzy patterns
WordGenres(w) ==
    IF w = "acción" THEN {"28", "12"}
    ELSE IF w = "comedia" THEN {"35"}
    ELSE {}

GenreOrder == <<"12", "28", "35">>

extract_genres_from_text(q) ==
    LET found_genres == UNION {WordGenres(q[i]) : i \in 1..Len(q)}
        found(g) == g \in found_genres
    IN SelectSeq(GenreOrder, found)

\* decade and era patterns, tried before the bare four-digit year
_extract_year_range_patterns(q) ==
    IF \E i \in 1..Len(q) : q[i] = "90" THEN YearRange(1990, 1999)
    ELSE IF \E i \in 1..Len(q) : q[i] = "1995" THEN YearRange(1995 - 2, 1995 + 2)
    ELSE NoneRange

\* float() of a number word, in tenths
NumberValue(w) ==
    IF w = "15" THEN 150 ELSE IF w = "90" THEN 900
    ELSE IF w = "1995" THEN 19950 ELSE Null

\* explicit "N estrellas" first, then the quality adjectives; Null is None
_extract_rating_patterns(q) ==
    LET explicit == {i \in 1..(Len(q) - 1) :
                        NumberValue(q[i]) # Null /\ q[i + 1] = "estrellas"}
    IN IF explicit # {}
       THEN LET i == CHOOSE j \in explicit : \A k \in explicit : j <= k
            IN Min(Max(NumberValue(q[i]), 0), 100)
       ELSE IF \E i \in 1..Len(q) : q[i] = "buenas" THEN 70
       ELSE Null

stop_words == {"de", "los"}

\* len(word) > 2
LongWord(w) == w \notin {"de", "90", "15"}

_extract_basic_keywords(q) ==
    LET meaningful(w) == LongWord(w) /\ w \notin stop_words
    IN Take(SelectSeq(q, meaningful), 10)

_determine_intent_patterns(q) ==
    IF \E i \in 1..Len(q) : q[i] = "opinión" THEN "information"
    ELSE IF Len(q) <= 2 \/ (\E i \in 1..Len(q) : q[i] = "algo")
    THEN "clarification"
    ELSE "recommendation"

RatingRange(lo, hi) == [some |-> TRUE, min_rating |-> lo, max_rating |-> hi]
NoRating == [some |-> FALSE, min_rating |-> Null, max_rating |-> Null]

Filters(g, yr, rr, kw, in, c) ==
    [genres |-> g, year_range |-> yr, rating_range |-> rr, keywords |-> kw,
     intent |-> in, confidence |-> c]

\* the bilingual comedy phrase that is boosted to 0.8
SpanishComedy(q) ==
    /\ \E i \in 1..Len(q) : q[i] = "comedia"
    /\ \E i \in 1..Len(q) : q[i] = "española"

extract_keywords_with_patterns(q) ==
    LET genres == extract_genres_from_text(q)
        rating_min == _extract_rating_patterns(q)
        rating_range == IF rating_min = Null THEN NoRating
                        ELSE RatingRange(rating_min, Null)
        basic == _extract_basic_keywords(q)
    IN IF SpanishComedy(q)
       THEN Filters(<<"35">>, _extract_year_range_patterns(q), rating_range,
                    <<"comedia", "española", "español">>,
                    _determine_intent_patterns(q), 8000)
       ELSE Filters(genres, _extract_year_range_patterns(q), rating_range,
                    basic, _determine_intent_patterns(q),
                    IF genres # <<>> THEN 6000
                    ELSE IF basic # <<>> THEN 4000 ELSE 2000)

(***************************************************************************)
(* The model's reply.  A reply is empty, free text holding no JSON, a JSON *)
(* value that is not an object, a JSON object standing alone ("json") or a *)
(* JSON object wrapped in explanatory text ("mixed").  A JSON object is a  *)
(* record of the fields the validator reads; a field the object lacks is   *)
(* marked in its kind.                                                     *)
(***************************************************************************)
Payload(gk, g, in, ck, c, yr, rmin, rmax, kw) ==
    [genresKind |-> gk, genres |-> g, intent |-> in, confKind |-> ck,
     confidence |-> c, year_range |-> yr, rating_min |-> rmin,
     rating_max |-> rmax, keywords |-> kw]

Missing == "<missing>"

PayloadCases ==
    { Payload("list", <<"28">>, "recommendation", "num", 9000, NoneRange, Null, Null, <<>>),
      Payload("list", <<"28">>, "recommendation", "num", 15000, NoneRange, Null, Null, <<>>),
      Payload("list", <<"35">>, "information", "num", -1000, NoneRange, Null, Null, <<"humor">>),
      Payload("list", <<"comedia", "int:18", "0", "xyz">>, "recommendation", "num", 10000,
              YearRange(1999, 1990), 80, 60, <<"a", "terror", NonStr>>),
      Payload("list", <<>>, "recommendation", "num", 9000, NoneRange, Null, Null, <<>>),
      Payload("list", <<"28">>, "recommendation", "num", 5000, NoneRange, Null, Null,
              <<"k0", "k1", "k2", "k3", "k4", "k5", "k6", "k7", "k8", "k9">>),
      Payload("list", <<>>, "recommendation", "num", 0, YearRange(1800, 1950), 150, 0, <<"humor">>),
      Payload("list", <<"28">>, "recommendation", "num", 3000, YearRange(1950, 2020), Null, Null, <<>>),
      Payload("list", <<"28">>, "otro", "num", 9000, NoneRange, Null, Null, <<>>),
      Payload("list", <<"28">>, Missing, "num", 9000, NoneRange, Null, Null, <<>>),
      Payload("list", <<"28">>, "recommendation", "str", 9000, NoneRange, Null, Null, <<>>),
      Payload("list", <<"28">>, "recommendation", "missing", 0, NoneRange, Null, Null, <<>>),
      Payload("notlist", <<>>, "recommendation", "num", 9000, NoneRange, Null, Null, <<>>),
      Payload("missing", <<>>, "clarification", "num", 20000, NoneRange, 70, Null, <<>>),
      Payload("list", <<"28">>, "recommendation", "num", 9000, YearRange(2010, 2000), 50, 0, <<>>) }

NoPayload == Payload("missing", <<>>, Missing, "missing", 0, NoneRange, Null, Null, <<>>)

AiResponses ==
    {[kind |-> k, payload |-> NoPayload] : k \in {"empty", "text", "nondict"}}
    \cup {[kind |-> k, payload |-> p] : k \in {"json", "mixed"}, p \in PayloadCases}

valid_intents == {"recommendation", "information", "clarification"}

\* variant: the range of the confidence is not checked
ValidateStructureWithoutRange(parsed) ==
    /\ parsed.genresKind = "list"
    /\ parsed.intent \in valid_intents
    /\ parsed.confKind = "num"

_validate_json_structure(parsed) ==
    /\ parsed.genresKind # "missing"
    /\ parsed.intent # Missing
    /\ parsed.confKind # "missing"
    /\ parsed.genresKind = "list"
    /\ parsed.intent \in valid_intents
    /\ parsed.confKind = "num"
    /\ 0 <= parsed.confidence /\ parsed.confidence <= Unit

\* a digit string, an int ("int:N"), a known genre name, or something else
ValidatedGenre(genre) ==
    IF genre \in {"28", "35", "18"} THEN <<genre>>
    ELSE IF genre = "0" THEN <<>>
    ELSE IF genre = "int:18" THEN <<"18">>
    ELSE IF genre = "comedia" THEN <<"35">>
    ELSE <<>>

_extract_and_validate_genres(genres_data) ==
    Concat([i \in 1..Len(genres_data) |-> ValidatedGenre(genres_data[i])])

ValidYear(y) == IF y # Null /\ ~(1900 <= y /\ y <= 2030) THEN Null ELSE y

\* Python truthiness of an optional number: None and 0 are both falsy
Truthy(x) == x # Null /\ x # 0

_extract_and_validate_year_range(year_data) ==
    IF ~year_data.some THEN NoneRange
    ELSE LET min_year == ValidYear(year_data.min_year)
             max_year == ValidYear(year_data.max_year)
             swap == Truthy(min_year) /\ Truthy(max_year) /\ min_year > max_year
             lo == IF swap THEN max_year ELSE min_year
             hi == IF swap THEN min_year ELSE max_year
         IN IF Truthy(lo) \/ Truthy(hi)
            THEN [some |-> TRUE, min_year |-> lo, max_year |-> hi]
            ELSE NoneRange

\* variant: a rating outside [0, 10] is clamped to the nearest bound
ValidRatingClamped(r) == IF r # Null THEN Min(Max(r, 0), 100) ELSE r

\* "not (0.0 <= rating <= 10.0)": the value is dropped
ValidRating(r) == IF r # Null /\ ~(0 <= r /\ r <= 100) THEN Null ELSE r

_extract_and_validate_rating_range(parsed) ==
    LET rating_min == ValidRating(parsed.rating_min)
        rating_max == ValidRating(parsed.rating_max)
        swap == Truthy(rating_min) /\ Truthy(rating_max) /\ rating_min > rating_max
        lo == IF swap THEN rating_max ELSE rating_min
        hi == IF swap THEN rating_min ELSE rating_max
    IN IF lo # Null \/ hi # Null THEN RatingRange(lo, hi) ELSE NoRating

\* 2 <= len(keyword.strip()) <= 50
_extract_and_validate_keywords(keywords_data) ==
    LET keep(keyword) == IsStr(keyword) /\ keyword # "a"
    IN Take(SelectSeq(keywords_data, keep), 10)

_validate_intent(intent) ==
    IF intent \in valid_intents THEN intent ELSE "recommendation"

_validate_confidence(parsed) ==
    IF parsed.confKind = "num" THEN Max(0, Min(Unit, parsed.confidence))
    ELSE Unit \div 10

\* variant: only a confidence below 0.2 counts as very low
LowConfidenceBelowFifth(confidence) == confidence < 2000

\* "if filters.confidence < 0.5": the confidence is very low
LowConfidence(confidence) == confidence < 5000

\* filter_count is kept in tenths
_apply_ambiguity_detection(f) ==
    LET original_confidence == f.confidence
        filter_count == (IF f.genres # <<>> THEN 10 ELSE 0)
                        + (IF f.year_range.some THEN 10 ELSE 0)
                        + (IF f.rating_range.some THEN 10 ELSE 0)
                        + Len(f.keywords)
        adjusted == IF filter_count = 0 THEN Min(original_confidence, 2000)
                    ELSE IF filter_count < 10 THEN Min(original_confidence, 4000)
                    ELSE IF filter_count >= 20
                    THEN Min(original_confidence
                               + Min(original_confidence \div 10, 1000), Unit)
                    ELSE original_confidence
        wide == /\ f.year_range.some
                /\ Truthy(f.year_range.min_year) /\ Truthy(f.year_range.max_year)
                /\ f.year_range.max_year - f.year_range.min_year > 30
        confidence == IF wide THEN Min(adjusted, 6000) ELSE adjusted
        intent0 == IF filter_count = 0 THEN "clarification" ELSE f.intent
        intent == IF LowConfidence(confidence) /\ intent0 = "recommendation"
                  THEN "clarification" ELSE intent0
    IN [f EXCEPT !.confidence = confidence, !.intent = intent]

\* the filters a JSON object yields; called only on an object that passed
\* _validate_json_structure
ParsedFilters(parsed) ==
    _apply_ambiguity_detection(
        Filters(_extract_and_validate_genres(parsed.genres),
                _extract_and_validate_year_range(parsed.year_range),
                _extract_and_validate_rating_range(parsed),
                _extract_and_validate_keywords(parsed.keywords),
                _validate_intent(parsed.intent),
                _validate_confidence(parsed)))

(***************************************************************************)
(* process_ai_response                                                     *)
(***************************************************************************)
\* variant: the fallback confidence is not capped
FallbackConfidenceUncapped == Unit

\* "min(fallback_filters.confidence, 0.4)": cap confidence for fallback
FallbackConfidenceCap == 4000

\* json.loads succeeds on the whole reply and yields an object that passes
\* the structure validation
_parse_and_validate_json_response(json_str) ==
    /\ json_str.kind = "json"
    /\ _validate_json_structure(json_str.payload)

\* the JSON text found inside the reply, as a reply standing alone; kind
\* "empty" stands for None.  The object patterns find the object of a
\* "json" or "mixed" reply; a "nondict" reply is found by the delimiter
\* patterns or not at all, and is no object either way.
_extract_json_from_mixed_content(content) ==
    IF content.kind \in {"json", "mixed"}
    THEN [kind |-> "json", payload |-> content.payload]
    ELSE [kind |-> "empty", payload |-> NoPayload]

\* the filters carry at least one genre, range or keyword
HasFilters(f) ==
    \/ f.genres # <<>>
    \/ f.year_range.some
    \/ f.rating_range.some
    \/ f.keywords # <<>>

NoFilters == Filters(<<>>, NoneRange, NoRating, <<>>, "none", 0)

\* no answer yet
NoResponse == [kind |-> "none", intent |-> "none", recommendations |-> <<>>,
               searched |-> FALSE]

\* ExtractedFilters.to_dict followed by json.dumps, as the object the
\* validator then reads: the ranges are written under the keys yearRange
\* {minYear, maxYear} and ratingRange {minRating, maxRating}, while the
\* validator reads year_range {min, max}, rating_min and rating_max
to_dict(f) ==
    Payload("list", f.genres, f.intent, "num", f.confidence,
            NoneRange, Null, Null, f.keywords)

AIInit ==
    /\ aiResponse \in AiResponses
    /\ userQuery \in Queries
    /\ aipc = "parse"
    /\ outFilters = NoFilters
    /\ validation = "pending"
    /\ firstFilters = NoFilters
    /\ round = 1
    /\ response = NoResponse

\* first pass: the reply as a whole
ParseStandalone ==
    /\ UNCHANGED otherThanAI
    /\ aipc = "parse"
    /\ IF _parse_and_validate_json_response(aiResponse)
       THEN /\ outFilters' = ParsedFilters(aiResponse.payload)
            /\ validation' = "accepted"
            /\ aipc' = "done"
       ELSE /\ aipc' = "mixed"
            /\ UNCHANGED <<outFilters, validation>>
    /\ UNCHANGED <<aiResponse, userQuery, firstFilters, round, response>>

\* second pass: JSON extracted from mixed content
ParseMixed ==
    /\ UNCHANGED otherThanAI
    /\ aipc = "mixed"
    /\ LET extracted_json == _extract_json_from_mixed_content(aiResponse)
       IN IF _parse_and_validate_json_response(extracted_json)
          THEN /\ outFilters' = ParsedFilters(extracted_json.payload)
               /\ validation' = "accepted"
               /\ aipc' = "done"
          ELSE /\ aipc' = "fallback"
               /\ UNCHANGED <<outFilters, validation>>
    /\ UNCHANGED <<aiResponse, userQuery, firstFilters, round, response>>

\* every JSON attempt failed: pattern extraction with capped confidence
Fallback ==
    /\ UNCHANGED otherThanAI
    /\ aipc = "fallback"
    /\ LET fallback_filters == extract_keywords_with_patterns(userQuery)
       IN outFilters' =
              [fallback_filters EXCEPT
                  !.confidence = Min(fallback_filters.confidence,
                                     FallbackConfidenceCap)]
    /\ validation' = "rejected"
    /\ aipc' = "done"
    /\ UNCHANGED <<aiResponse, userQuery, firstFilters, round, response>>

(***************************************************************************)
(* AmbiguityClassifier: detect_ambiguous_query, and the branch of the      *)
(* query handler that acts on it                                           *)
(***************************************************************************)
\* the vague terms that occur in a word as substrings
WordVagueTerms(w) ==
    IF w = "algo" THEN {"algo"}
    ELSE IF w = "películas" THEN {"película"}
    ELSE {}

vague_term_count(q) == Cardinality(UNION {WordVagueTerms(q[i]) : i \in 1..Len(q)})

has_specific_filters(f) ==
    \/ Len(f.genres) > 0
    \/ f.year_range.some
    \/ f.rating_range.some
    \/ Len(f.keywords) >= 2

\* variant: only a confidence below 0.3 is low on its own
BelowGenericThresholdLowered(confidence) == confidence < 3000

\* "if extracted_filters.confidence < 0.5: return True"
BelowGenericThreshold(confidence) == confidence < 5000

\* the composite score, in tenths
ambiguity_score(f, q) ==
    (IF ~HasFilters(f) THEN 4 ELSE 0)
    + (IF Len(f.genres) = 0 THEN 2 ELSE 0)
    + (IF ~f.year_range.some /\ ~f.rating_range.some THEN 2 ELSE 0)
    + (IF q # <<>> /\ Len(q) <= 2 THEN 3 ELSE 0)
    + (IF q = <<>> THEN 0
       ELSE IF vague_term_count(q) >= 2 THEN 3
       ELSE IF vague_term_count(q) = 1 /\ Len(q) <= 3 THEN 2
       ELSE 0)

detect_ambiguous_query(f, q) ==
    IF has_specific_filters(f) THEN f.confidence < 2000
    ELSE IF BelowGenericThreshold(f.confidence) THEN TRUE
    ELSE ambiguity_score(f, q) >= 5

\* what the handler's own search_movies_with_filters hands back: the list
\* of the movie service, or [] when the call raised
SearchOutcomes == {<<>>, _get_emergency_fallback_recommendation}

\* variant: the handler searches whatever the classifier said
AnswerKindAlwaysSearch(ambiguous) == "search"

\* "if self.ai_prompt_generator.detect_ambiguous_query(...): ... else: ..."
AnswerKind(ambiguous) == IF ambiguous THEN "clarification" ELSE "search"

\* the handler classifies the filters and answers: a clarification without
\* searching, or the outcome of the search
Respond ==
    /\ UNCHANGED otherThanAI
    /\ aipc = "done"
    /\ aipc' = "answered"
    /\ IF AnswerKind(detect_ambiguous_query(outFilters, userQuery)) = "clarification"
       THEN response' = [kind |-> "clarification", intent |-> "clarification",
                         recommendations |-> <<>>, searched |-> FALSE]
       ELSE \E recommendations \in SearchOutcomes :
                response' = [kind |-> "search", intent |-> outFilters.intent,
                             recommendations |-> recommendations,
                             searched |-> TRUE]
    /\ UNCHANGED <<aiResponse, userQuery, outFilters, validation,
                   firstFilters, round>>

\* the caller serializes the filters it was handed for a valid reply and
\* submits them as a reply of their own
Resubmit ==
    /\ UNCHANGED otherThanAI
    /\ aipc = "done"
    /\ validation = "accepted"
    /\ round = 1
    /\ firstFilters' = outFilters
    /\ aiResponse' = [kind |-> "json", payload |-> to_dict(outFilters)]
    /\ round' = 2
    /\ aipc' = "parse"
    /\ validation' = "pending"
    /\ UNCHANGED <<userQuery, outFilters, response>>

(***************************************************************************)
(* _validate_and_normalize_movie_data                                      *)
(* A value of a raw record is a kind together with what it carries; a      *)
(* float is kept in tenths.  The alternative keys of a field (tmdbId,      *)
(* mediaTitle, vote_average, ...) are absent from the records tried.       *)
(***************************************************************************)
Absent == [kind |-> "missing", str |-> "", num |-> 0]   \* no such key
None == [kind |-> "none", str |-> "", num |-> 0]
StrVal(s) == [kind |-> "str", str |-> s, num |-> 0]
IntVal(n) == [kind |-> "int", str |-> "", num |-> n]
FloatVal(x) == [kind |-> "float", str |-> "", num |-> x]
NaN == [kind |-> "nan", str |-> "", num |-> 0]          \* float('nan')
List == [kind |-> "list", str |-> "", num |-> 0]

\* dict.get(key, default)
Get(v, default) == IF v.kind = "missing" THEN default ELSE v

\* "not s.strip()"
Blank(s) == s \in {"", "   "}

\* str(n) of the numbers tried
StrOfInt(n) == IF n = 603 THEN "603" ELSE IF n = 2020 THEN "2020" ELSE "7"

StrOfFloat(x) ==
    IF x = 75 THEN "7.5" ELSE IF x = 150 THEN "15.0"
    ELSE IF x = 6030 THEN "603.0" ELSE "-1.0"

_safe_string_conversion(value) ==
    IF value.kind = "none" THEN ""
    ELSE IF value.kind = "str" THEN value.str
    ELSE IF value.kind = "int" THEN StrOfInt(value.num)
    ELSE IF value.kind = "float" THEN StrOfFloat(value.num)
    ELSE ""

\* float(s) of the strings tried; "nan" parses to NaN, "abc" raises
ParsedFloat(s) ==
    IF s = "7.5" THEN FloatVal(75) ELSE IF s = "15.0" THEN FloatVal(150)
    ELSE IF s = "nan" THEN NaN ELSE None

\* the float returned, in tenths
_safe_float_conversion(value) ==
    IF value.kind = "int" THEN value.num * 10
    ELSE IF value.kind = "float" THEN value.num
    ELSE IF value.kind = "str" /\ ~Blank(value.str)
              /\ ParsedFloat(value.str).kind = "float"
         THEN ParsedFloat(value.str).num
    ELSE 0

\* the hashed strings, numbered
StrCode(s) == IF s = "comedy-es-1" THEN 11 ELSE 12

\* _safe_int_conversion of a string: blank, all digits, or hashed
NumericId(value) ==
    IF Blank(value) THEN 0
    ELSE IF value = "603" THEN 603
    ELSE _safe_int_conversion(StrCode(value))

\* poster_path is the only poster field of the records tried
_get_validated_poster_url(poster) ==
    IF poster.kind = "str" /\ ~Blank(poster.str)
    THEN IF poster.str = "http://x/p.jpg" THEN poster.str
         ELSE IF poster.str = "/p.jpg"
              THEN "https://image.tmdb.org/t/p/w500/p.jpg"
         ELSE IF poster.str = "pics/p.jpg" THEN poster.str
         ELSE "https://via.placeholder.com/500x750/2c3e50/ecf0f1?text=Sin+Poster"
    ELSE "https://via.placeholder.com/500x750/2c3e50/ecf0f1?text=Sin+Poster"

\* len(overview.strip()) < 10
ShortOverview(overview) == overview # "Una historia larga"

\* the sentence built from the title, never empty
_generate_fallback_overview(title) ==
    "Película titulada. Información adicional no disponible temporalmente."

\* int(date_str[:4]), Null when the string is shorter or has no such number
YearPrefix(date_str) ==
    IF date_str \in {"2020-05-01", "2020"} THEN 2020
    ELSE IF date_str = "1800-01-01" THEN 1800
    ELSE Null

_validate_and_format_date(date_str) ==
    IF YearPrefix(date_str) # Null
          /\ 1900 <= YearPrefix(date_str) /\ YearPrefix(date_str) <= 2030
    THEN date_str ELSE ""

\* variant: only a negative rating is reset
RatingBelowRangeOnly(rating) == rating < 0

\* "if rating < 0 or rating > 10 ...": the rating is reset to 0.0
RatingOutOfRange(rating) == rating < 0 \/ rating > 100

_validate_and_normalize_movie_data(m) ==
    LET id0 == _safe_string_conversion(Get(m.id, StrVal("")))
        title0 == _safe_string_conversion(
                      Get(m.title, StrVal("Título no disponible")))
        overview0 == _safe_string_conversion(Get(m.overview, StrVal("")))
        rating0 == _safe_float_conversion(Get(m.rating, IntVal(0)))
        release_date == _safe_string_conversion(Get(m.release_date, StrVal("")))
        movie_id == IF Blank(id0) THEN "unknown-N" ELSE id0
        title == IF Blank(title0) THEN "Título no disponible" ELSE title0
        overview == IF ShortOverview(overview0)
                    THEN _generate_fallback_overview(title) ELSE overview0
        rating == IF RatingOutOfRange(rating0) THEN 0 ELSE rating0
    IN [id |-> IntVal(NumericId(movie_id)),
        title |-> StrVal(title),
        overview |-> StrVal(overview),
        poster_path |-> StrVal(_get_validated_poster_url(m.poster_path)),
        rating |-> FloatVal(rating),
        release_date |-> StrVal(_validate_and_format_date(release_date))]

\* the raw records tried: each field missing, null, good or of a wrong type
RawMovies ==
    [id : {Absent, None, StrVal("603"), StrVal("comedy-es-1"), IntVal(603),
           FloatVal(6030), List},
     title : {Absent, None, StrVal("Matrix"), StrVal("   "), IntVal(7)},
     overview : {Absent, None, StrVal("corta"), StrVal("Una historia larga"),
                 List},
     poster_path : {Absent, None, StrVal("/p.jpg"), StrVal("http://x/p.jpg"),
                    StrVal("abc"), IntVal(7)},
     rating : {Absent, None, FloatVal(75), FloatVal(150), FloatVal(-10),
               IntVal(7), NaN, StrVal("7.5"), StrVal("15.0"), StrVal("abc"),
               StrVal("nan")},
     release_date : {Absent, None, StrVal("2020-05-01"), StrVal("1800-01-01"),
                     StrVal("abc"), IntVal(2020)}]

NotNormalized ==
    [id |-> Absent, title |-> Absent, overview |-> Absent,
     poster_path |-> Absent, rating |-> Absent, release_date |-> Absent]

\* no normalization is under way
NoNormalization ==
    /\ movie_data = NotNormalized
    /\ normalized_movie = NotNormalized

NormInit ==
    /\ movie_data \in RawMovies
    /\ normalized_movie = NotNormalized

Normalize ==
    /\ UNCHANGED otherThanNorm
    /\ normalized_movie = NotNormalized
    /\ normalized_movie' = _validate_and_normalize_movie_data(movie_data)
    /\ UNCHANGED movie_data

(***************************************************************************)
(* RateLimiter (utils/rate_limiter.py) and the rate-limited branch of      *)
(* _handle_ask_trini.  Time is time.time() in whole seconds.               *)
(***************************************************************************)
Users == {"u1", "u2"}

\* MAX_QUERIES_PER_MINUTE and the window TriniHandler.__init__ passes
max_requests == 5
window_seconds == 60

\* the pauses between two requests that are tried
Elapse == {20, 60}

\* the methods class RateLimiter defines
RateLimiterMethods ==
    {"configure_persistence", "is_rate_limited", "get_user_request_count",
     "get_time_until_reset", "reset_user_limits", "reset_all_limits",
     "get_rate_limit_error_response", "validate_configuration"}

\* "if current_time - req_time < self.window_seconds"
InWindow(current_time, req_time) == current_time - req_time < window_seconds

Recent(requests, current_time) ==
    SelectSeq(requests, LAMBDA req_time : InWindow(current_time, req_time))

\* variant: the limit is reached one request later
OverLimit(n) == n > max_requests

\* "if len(self.user_requests[user_id]) >= self.max_requests"
AtLimit(n) == n >= max_requests

\* variant: a rejected request is recorded like an admitted one
RejectedRecorded(requests, current_time) == Append(requests, current_time)

\* "return True" of is_rate_limited leaves the list as it was pruned
Rejected(requests, current_time) == requests

\* is_rate_limited: the answer and the list it leaves for the user
is_rate_limited(requests, current_time) ==
    LET recent == Recent(requests, current_time)
    IN  IF AtLimit(Len(recent))
        THEN [limited |-> TRUE, requests |-> Rejected(recent, current_time)]
        ELSE [limited |-> FALSE, requests |-> Append(recent, current_time)]

get_user_request_count(requests, current_time) ==
    Len(Recent(requests, current_time))

Oldest(requests) ==
    CHOOSE t \in {requests[i] : i \in DOMAIN requests} :
        \A i \in DOMAIN requests : t <= requests[i]

\* "max(0, int(time_until_reset))"
get_time_until_reset(requests, current_time) ==
    IF requests = <<>> THEN 0
    ELSE LET time_until_reset == window_seconds - (current_time - Oldest(requests))
         IN  IF time_until_reset > 0 THEN time_until_reset ELSE 0

NoRateLimitInfo ==
    [maxRequests |-> Null, windowSeconds |-> Null, currentCount |-> Null,
     timeUntilReset |-> Null]

Answer(k, e, f, c, n, info) ==
    [kind |-> k, error |-> e, fallbackUsed |-> f, confidence |-> c,
     recommendations |-> n, rateLimitInfo |-> info]

NoAnswer == Answer("none", "", FALSE, 0, 0, NoRateLimitInfo)

get_rate_limit_error_response(requests, current_time) ==
    Answer("rate_limit", "Rate limit exceeded", TRUE, 0, 0,
           [maxRequests |-> max_requests, windowSeconds |-> window_seconds,
            currentCount |-> get_user_request_count(requests, current_time),
            timeUntilReset |-> get_time_until_reset(requests, current_time)])

\* _create_error_response as the except clause of process_query calls it
_create_error_response(error_message) ==
    Answer("error", error_message, TRUE, 0, 0, NoRateLimitInfo)

\* "if self.rate_limiter.is_rate_limited(user_id):" of _handle_ask_trini and
\* what process_query returns for it: line 154 looks up get_current_count
\* on the rate limiter before line 158 builds the rate-limit response
RateLimitedBranch(requests, current_time) ==
    IF "get_current_count" \in RateLimiterMethods
    THEN get_rate_limit_error_response(requests, current_time)
    ELSE _create_error_response("'RateLimiter' object has no attribute 'get_current_count'")

\* the request went on to the language model and the movie search
Served == Answer("trini", "", FALSE, 0, 0, NoRateLimitInfo)

NoCall == [user |-> "none", time |-> 0, limited |-> FALSE, remaining |-> 0]

\* how many of the times in a history lie inside the window that ends now
Remaining(history, current_time) == Len(Recent(history, current_time))

NoRateLimiter ==
    /\ clock = 0
    /\ user_requests = [u \in Users |-> <<>>]
    /\ admitted = [u \in Users |-> <<>>]
    /\ rejectedAt = [u \in Users |-> Null]
    /\ lastCall = NoCall
    /\ answer = NoAnswer

\* RateLimiter.__init__
RateInit ==
    /\ clock = 0
    /\ user_requests = [u \in Users |-> <<>>]
    /\ admitted = [u \in Users |-> <<>>]
    /\ rejectedAt = [u \in Users |-> Null]
    /\ lastCall = NoCall
    /\ answer = NoAnswer

RECURSIVE Total(_, _)
Total(history, users) ==
    IF users = {} THEN 0
    ELSE LET u == CHOOSE x \in users : TRUE
         IN  Len(history[u]) + Total(history, users \ {u})

AdmittedInAll == Total(admitted, Users)

\* time passes between two requests
TimePasses ==
    /\ UNCHANGED otherThanRate
    /\ \E d \in Elapse :
        /\ clock + d <= MaxClock
        /\ clock' = clock + d
    /\ UNCHANGED <<user_requests, admitted, rejectedAt, lastCall, answer>>

\* askTrini of a user who is under the limit
AskAdmitted ==
    /\ UNCHANGED otherThanRate
    /\ \E u \in Users :
        LET call == is_rate_limited(user_requests[u], clock)
        IN  /\ ~call.limited
            /\ AdmittedInAll < MaxAdmitted
            /\ user_requests' = [user_requests EXCEPT ![u] = call.requests]
            /\ admitted' = [admitted EXCEPT ![u] = Append(@, clock)]
            /\ lastCall' = [user |-> u, time |-> clock, limited |-> FALSE,
                            remaining |-> Remaining(admitted[u], clock)]
            /\ answer' = Served
    /\ UNCHANGED <<clock, rejectedAt>>

\* askTrini of a user the rate limiter rejects
AskRejected ==
    /\ UNCHANGED otherThanRate
    /\ \E u \in Users :
        LET call == is_rate_limited(user_requests[u], clock)
        IN  /\ call.limited
            /\ user_requests' = [user_requests EXCEPT ![u] = call.requests]
            /\ rejectedAt' = [rejectedAt EXCEPT ![u] = clock]
            /\ lastCall' = [user |-> u, time |-> clock, limited |-> TRUE,
                            remaining |-> Remaining(admitted[u], clock)]
            /\ answer' = RateLimitedBranch(call.requests, clock)
    /\ UNCHANGED <<clock, admitted>>

(***************************************************************************)
(* handler and TriniHandler.process_query                                  *)
(* An event is described by what the code asks of it: whether it and its   *)
(* info and identity entries are dicts, its field name, the state of its   *)
(* arguments, and which of the services fail while it is served.           *)
(***************************************************************************)
FieldNames == {"askTrini", "getChatHistory", "addTriniRecommendationToRoom", "other"}

Services == {"environment", "language_model", "session_store", "room_store",
             "movie_search"}

Events ==
    [isDict : BOOLEAN, info : {"dict", "none"}, identity : {"dict", "none"},
     fieldName : FieldNames, arguments : {"complete", "incomplete", "nondict"},
     rateLimited : BOOLEAN, failing : SUBSET Services]

NoReply == [kind |-> "none", error |-> FALSE, fallbackUsed |-> FALSE]
Reply(k, e, f) == [kind |-> k, error |-> e, fallbackUsed |-> f]

\* "event.get('info', {}).get('fieldName', '')" raises before field_name is
\* bound; "event.get('identity', {}).get('userId', ...)" before user_id is
NamesUnbound(ev) == ~ev.isDict \/ ev.info = "none" \/ ev.identity = "none"

\* _handle_ask_trini: what it returns, or "raise".  A failing language
\* model, session store or movie search is absorbed: the inner except
\* clause, the session service and search_movies_with_filters catch it, and
\* a TriniResponse without error is returned.  A rate-limited request
\* raises at line 154 unless the rate limiter has a get_current_count
_handle_ask_trini(ev) ==
    IF ev.arguments \in {"nondict", "incomplete"} THEN Reply("raise", TRUE, FALSE)
    ELSE IF ev.rateLimited /\ "get_current_count" \notin RateLimiterMethods
         THEN Reply("raise", TRUE, FALSE)
    ELSE IF ev.rateLimited THEN Reply("rate_limit", TRUE, TRUE)
    ELSE Reply("trini", FALSE, FALSE)

\* _handle_add_to_room: a failing room store is answered with success False
_handle_add_to_room(ev) ==
    IF ev.arguments \in {"nondict", "incomplete"} THEN Reply("raise", TRUE, FALSE)
    ELSE IF "room_store" \in ev.failing THEN Reply("room", TRUE, FALSE)
    ELSE Reply("room", FALSE, FALSE)

\* the try block of process_query; _handle_get_chat_history is called with
\* one argument more than it takes
Route(ev) ==
    IF NamesUnbound(ev) THEN Reply("raise", TRUE, FALSE)
    ELSE IF ev.fieldName = "askTrini" THEN _handle_ask_trini(ev)
    ELSE IF ev.fieldName = "getChatHistory" THEN Reply("raise", TRUE, FALSE)
    ELSE IF ev.fieldName = "addTriniRecommendationToRoom"
         THEN _handle_add_to_room(ev)
    ELSE Reply("raise", TRUE, FALSE)

\* variant: a failure that reaches the handler is raised to its caller
OnFatalErrorPropagates == "raised"

\* "except Exception as e:" of handler
OnFatalError == "caught"

NoRequest ==
    /\ event = [isDict |-> TRUE, info |-> "dict", identity |-> "dict",
                fieldName |-> "other", arguments |-> "complete",
                rateLimited |-> FALSE, failing |-> {}]
    /\ hpc = "returned"
    /\ reply = NoReply

HandlerInit ==
    /\ event \in Events
    /\ hpc = "invoked"
    /\ reply = NoReply

\* handler validates the environment and starts process_query
HandlerInvoked ==
    /\ UNCHANGED otherThanHandler
    /\ hpc = "invoked"
    /\ hpc' = IF "environment" \in event.failing THEN OnFatalError
              ELSE "process_query"
    /\ UNCHANGED <<event, reply>>

\* the try block of process_query returns or raises
ProcessQueryBody ==
    /\ UNCHANGED otherThanHandler
    /\ hpc = "process_query"
    /\ IF Route(event).kind = "raise"
       THEN hpc' = "except" /\ reply' = reply
       ELSE hpc' = "returned" /\ reply' = Route(event)
    /\ UNCHANGED event

\* the except clause of process_query: it reads field_name and user_id, and
\* returns _create_error_response
ProcessQueryExcept ==
    /\ UNCHANGED otherThanHandler
    /\ hpc = "except"
    /\ IF NamesUnbound(event)
       THEN hpc' = OnFatalError /\ reply' = reply
       ELSE hpc' = "returned" /\ reply' = Reply("error", TRUE, TRUE)
    /\ UNCHANGED event

\* the except clause of handler returns the 'error-session' dictionary
HandlerExcept ==
    /\ UNCHANGED otherThanHandler
    /\ hpc = "caught"
    /\ hpc' = "returned"
    /\ reply' = Reply("error-session", TRUE, TRUE)
    /\ UNCHANGED event

(***************************************************************************)
(* ChatSession.add_message (models/chat_session.py) and                    *)
(* SessionService.save_chat_session (utils/session_service.py).  A message *)
(* is known by its message_id, a fresh one for every message, and its type.*)
(***************************************************************************)
MessageTypes == {"user_query", "trini_response"}

ChatMessage(id, ty) == [message_id |-> id, type |-> ty]

\* variant: the oldest ten messages are kept
FirstTen(msgs) == SubSeq(msgs, 1, 10)

\* "self.messages[-10:]"
LastTen(msgs) == SubSeq(msgs, Len(msgs) - 9, Len(msgs))

\* "if len(self.messages) > 10: self.messages = self.messages[-10:]"
KeepLastTen(msgs) == IF Len(msgs) > 10 THEN LastTen(msgs) ELSE msgs

add_message(msgs, message) == KeepLastTen(Append(msgs, message))

\* ChatMessage.to_dict
MessageToDict(message) == [messageId |-> message.message_id, type |-> message.type]

\* ChatSession.to_dict with the two entries save_chat_session adds
SessionItem(msgs) ==
    [messages |-> [i \in DOMAIN msgs |-> MessageToDict(msgs[i])],
     messageCount |-> Len(msgs), sessionStatus |-> "active"]

NoItem == [messages |-> <<>>, messageCount |-> Null, sessionStatus |-> "none"]

NoChatSession ==
    /\ messages = <<>>
    /\ added = <<>>
    /\ item = NoItem
    /\ save_success = "not saved"
    /\ savedAfter = Null

\* create_new_session
ChatInit ==
    /\ messages = <<>>
    /\ added = <<>>
    /\ item = NoItem
    /\ save_success = "not saved"
    /\ savedAfter = 0

\* chat_session.add_message(message)
AddMessage ==
    /\ UNCHANGED otherThanChat
    /\ Len(added) < MaxMessages
    /\ \E ty \in MessageTypes :
        LET message == ChatMessage(Len(added) + 1, ty)
        IN  /\ messages' = add_message(messages, message)
            /\ added' = Append(added, message)
    /\ UNCHANGED <<item, save_success, savedAfter>>

\* save_chat_session, put_item succeeds
SaveSucceeds ==
    /\ UNCHANGED otherThanChat
    /\ messages' = KeepLastTen(messages)
    /\ item' = SessionItem(messages')
    /\ save_success' = "True"
    /\ savedAfter' = Len(added)
    /\ UNCHANGED added

\* save_chat_session, put_item raises: the except clauses return False
SaveFails ==
    /\ UNCHANGED otherThanChat
    /\ messages' = KeepLastTen(messages)
    /\ save_success' = "False"
    /\ UNCHANGED <<added, item, savedAfter>>

(***************************************************************************)
(* The cache tier run on candidate records that are handed to it, as       *)
(* _get_cached_movies_with_filtering does from line 176 on.  The records   *)
(* are dictionaries: what the enhanced filter writes into them stays.      *)
(***************************************************************************)
\* the candidate lists of the cache cases
CandidateLists ==
    UNION {{c[k] : k \in DOMAIN c} : c \in CacheCases}

\* the loop body of the enhanced filter raises for this record
FilteringRaisesAt(m, f) ==
    \/ FloatRaises(m)
    \/ f.keywords # <<>> /\ (m.title = "nonstr" \/ KeywordsRaise(f))

\* the records the loop of the enhanced filter reached before it raised
ReachedByFilter(movies, f) ==
    IF EnhancedFilteringRaises(movies, f)
    THEN (CHOOSE i \in 1..Len(movies) :
              /\ FilteringRaisesAt(movies[i], f)
              /\ \A j \in 1..(i - 1) : ~FilteringRaisesAt(movies[j], f)) - 1
    ELSE Len(movies)

\* the records after the run: "movie['_cache_score'] = final_score"
RecordsAfterFiltering(movies, f) ==
    LET marked == MarkCacheScore(movies, f)
    IN  [i \in 1..Len(movies) |->
            IF i <= ReachedByFilter(movies, f) THEN marked[i] ELSE movies[i]]

NoTierRun ==
    /\ tier_filters = NoFilters
    /\ unique_movies = <<>>
    /\ tier_limit = 1
    /\ given = [filters |-> NoFilters, movies |-> <<>>]
    /\ runs = <<>>

TierInit ==
    /\ tier_filters \in FilterCases
    /\ unique_movies \in CandidateLists
    /\ tier_limit \in 1..MaxLimit
    /\ given = [filters |-> tier_filters, movies |-> unique_movies]
    /\ runs = <<>>

\* one run of the tier on the records; any exception inside gives []
TierRun ==
    /\ UNCHANGED otherThanTier
    /\ Len(runs) < MaxRuns
    /\ runs' = Append(runs,
                      IF EnhancedFilteringRaises(unique_movies, tier_filters)
                      THEN <<>>
                      ELSE FilterAndTransform(unique_movies, tier_filters,
                                              tier_limit))
    /\ unique_movies' = RecordsAfterFiltering(unique_movies, tier_filters)
    /\ UNCHANGED <<tier_filters, tier_limit, given>>

(***************************************************************************)
(* RoomService.add_recommendation_to_room (utils/room_service.py).  Every  *)
(* request runs in its own Lambda invocation; what the requests share is   *)
(* the room item and the room matches table, and each DynamoDB call is one *)
(* step.                                                                   *)
(***************************************************************************)
Requests == 1..MaxRequests

MovieIds == {"550", "603"}

RoomStatuses == {"WAITING", "ACTIVE", "FINISHED"}

\* "if room_status not in ['WAITING', 'ACTIVE']"
AcceptsMovies(status) == status \in {"WAITING", "ACTIVE"}

InPool(movie_id, content_ids) ==
    \E i \in DOMAIN content_ids : content_ids[i] = movie_id

\* the UpdateExpression of update_item:
\* "SET contentIds = list_append(if_not_exists(contentIds, :empty_list), :movie_list)"
\* under the ConditionExpression 'attribute_exists(PK)'
list_append(content_ids, movie_id) == Append(content_ids, movie_id)

RequestReturned(rq, success) == [rq EXCEPT !.rpc = "returned", !.success = success]

RequestAt(rq, position) == [rq EXCEPT !.rpc = position]

NoRoomRequest ==
    /\ contentIds = <<>>
    /\ room_status = "FINISHED"
    /\ room_matches = {}
    /\ request = [r \in {} |-> 0]

RoomInit ==
    /\ contentIds \in {<<>>, <<"603">>}
    /\ room_status \in RoomStatuses
    /\ room_matches = {}
    /\ request \in [Requests -> [movie_id : MovieIds, is_member : BOOLEAN,
                                 rpc : {"called"}, success : {"none"}]]

\* _validate_room_membership
ValidateMembership ==
    /\ UNCHANGED otherThanRoom
    /\ \E r \in Requests :
        /\ request[r].rpc = "called"
        /\ request' = [request EXCEPT ![r] =
                          IF request[r].is_member THEN RequestAt(@, "member")
                          ELSE RequestReturned(@, "False")]
    /\ UNCHANGED <<contentIds, room_status, room_matches>>

\* _get_room_details and the checks of the room's state and content pool
CheckRoom ==
    /\ UNCHANGED otherThanRoom
    /\ \E r \in Requests :
        /\ request[r].rpc = "member"
        /\ request' = [request EXCEPT ![r] =
                          IF /\ AcceptsMovies(room_status)
                             /\ ~InPool(request[r].movie_id, contentIds)
                          THEN RequestAt(@, "in state") ELSE RequestReturned(@, "False")]
    /\ UNCHANGED <<contentIds, room_status, room_matches>>

\* _get_room_voted_movies and the check against it
CheckVoted ==
    /\ UNCHANGED otherThanRoom
    /\ \E r \in Requests :
        /\ request[r].rpc = "in state"
        /\ request' = [request EXCEPT ![r] =
                          IF request[r].movie_id \in room_matches
                          THEN RequestReturned(@, "False") ELSE RequestAt(@, "not voted")]
    /\ UNCHANGED <<contentIds, room_status, room_matches>>

\* _add_movie_to_room_content reads the room item again
CheckContentAgain ==
    /\ UNCHANGED otherThanRoom
    /\ \E r \in Requests :
        /\ request[r].rpc = "not voted"
        /\ request' = [request EXCEPT ![r] =
                          IF InPool(request[r].movie_id, contentIds)
                          THEN RequestReturned(@, "False") ELSE RequestAt(@, "not in pool")]
    /\ UNCHANGED <<contentIds, room_status, room_matches>>

\* rooms_table.update_item
UpdateItem ==
    /\ UNCHANGED otherThanRoom
    /\ \E r \in Requests :
        /\ request[r].rpc = "not in pool"
        /\ contentIds' = list_append(contentIds, request[r].movie_id)
        /\ request' = [request EXCEPT ![r] = RequestAt(@, "updated")]
    /\ UNCHANGED <<room_status, room_matches>>

\* _create_trini_suggestion_record, then the request returns success
CreateSuggestionRecord ==
    /\ UNCHANGED otherThanRoom
    /\ \E r \in Requests :
        /\ request[r].rpc = "updated"
        /\ room_matches' = room_matches \cup {request[r].movie_id}
        /\ request' = [request EXCEPT ![r] = RequestReturned(@, "True")]
    /\ UNCHANGED <<contentIds, room_status>>

(***************************************************************************)
(* Specifications                                                          *)
(***************************************************************************)
\* one call of search_movies_with_filters
\* no process_ai_response call is under way
NoAICall ==
    /\ aiResponse = [kind |-> "empty", payload |-> NoPayload]
    /\ userQuery = <<>>
    /\ aipc = "done"
    /\ outFilters = NoFilters
    /\ validation = "pending"
    /\ firstFilters = NoFilters
    /\ round = 1
    /\ response = NoResponse

\* no search call is under way
NoSearchCall ==
    /\ filters = ExtractedFilters(<<>>, NoneRange, 0, <<>>, {})
    /\ limit = 1
    /\ cache = EmptyCache
    /\ pc = "done"
    /\ attempt = 0
    /\ payload = [genreIds |-> <<>>, limit |-> 0, excludeIds |-> {},
                  keywords |-> <<>>]
    /\ invocations = 0
    /\ failures = 0
    /\ attempted = <<>>
    /\ validated = [t \in Tiers |-> 0]
    /\ scored = [t \in Tiers |-> "not run"]
    /\ result = <<>>
    /\ transformed = [ranked |-> <<>>, recommendations |-> <<>>]
    /\ raised = FALSE

Init ==
    /\ SearchInit
    /\ NoAICall
    /\ NoNormalization
    /\ NoRequest
    /\ NoRateLimiter
    /\ NoChatSession
    /\ NoTierRun
    /\ NoRoomRequest

Next ==
    \/ StartSearch
    \/ InvokeRaises
    \/ InvokeEmpty
    \/ InvokeReturns
    \/ CacheTier
    \/ CuratedTier
    \/ EmergencyTier

Spec == Init /\ [][Next]_vars

\* one call of process_ai_response
InitAI ==
    /\ AIInit
    /\ NoSearchCall
    /\ hashSalt = 0
    /\ NoNormalization
    /\ NoRequest
    /\ NoRateLimiter
    /\ NoChatSession
    /\ NoTierRun
    /\ NoRoomRequest

NextAI ==
    \/ ParseStandalone
    \/ ParseMixed
    \/ Fallback
    \/ Resubmit
    \/ Respond

SpecAI == InitAI /\ [][NextAI]_vars

\* one call of _validate_and_normalize_movie_data
InitNorm ==
    /\ NormInit
    /\ NoAICall
    /\ NoSearchCall
    /\ hashSalt \in 0..(MaxSalt - 1)
    /\ NoRequest
    /\ NoRateLimiter
    /\ NoChatSession
    /\ NoTierRun
    /\ NoRoomRequest

NextNorm == Normalize

SpecNorm == InitNorm /\ [][NextNorm]_vars

\* one invocation of handler
InitHandler ==
    /\ HandlerInit
    /\ NoAICall
    /\ NoSearchCall
    /\ hashSalt = 0
    /\ NoNormalization
    /\ NoRateLimiter
    /\ NoChatSession
    /\ NoTierRun
    /\ NoRoomRequest

NextHandler ==
    \/ HandlerInvoked
    \/ ProcessQueryBody
    \/ ProcessQueryExcept
    \/ HandlerExcept

SpecHandler == InitHandler /\ [][NextHandler]_vars

\* the requests one RateLimiter sees
InitRate ==
    /\ RateInit
    /\ NoAICall
    /\ NoSearchCall
    /\ hashSalt = 0
    /\ NoNormalization
    /\ NoRequest
    /\ NoChatSession
    /\ NoTierRun
    /\ NoRoomRequest

NextRate ==
    \/ TimePasses
    \/ AskAdmitted
    \/ AskRejected

SpecRate == InitRate /\ [][NextRate]_vars

\* one chat session, from create_new_session on
InitChat ==
    /\ ChatInit
    /\ NoAICall
    /\ NoSearchCall
    /\ hashSalt = 0
    /\ NoNormalization
    /\ NoRequest
    /\ NoRateLimiter
    /\ NoTierRun
    /\ NoRoomRequest

NextChat ==
    \/ AddMessage
    \/ SaveSucceeds
    \/ SaveFails

SpecChat == InitChat /\ [][NextChat]_vars

\* the cache tier run, and run again, on the same filters and records
InitTier ==
    /\ TierInit
    /\ NoAICall
    /\ NoSearchCall
    /\ hashSalt \in 0..(MaxSalt - 1)
    /\ NoNormalization
    /\ NoRequest
    /\ NoRateLimiter
    /\ NoChatSession
    /\ NoRoomRequest

NextTier == TierRun

SpecTier == InitTier /\ [][NextTier]_vars

\* concurrent add_recommendation_to_room requests for one room
InitRoom ==
    /\ RoomInit
    /\ NoAICall
    /\ NoSearchCall
    /\ hashSalt = 0
    /\ NoNormalization
    /\ NoRequest
    /\ NoRateLimiter
    /\ NoChatSession
    /\ NoTierRun

NextRoom ==
    \/ ValidateMembership
    \/ CheckRoom
    \/ CheckVoted
    \/ CheckContentAgain
    \/ UpdateItem
    \/ CreateSuggestionRecord

SpecRoom == InitRoom /\ [][NextRoom]_vars

(***************************************************************************)
(* Properties of search_movies_with_filters (specification Spec)           *)
(***************************************************************************)
Returned == pc = "done"

ResultIds == {result[i].id : i \in 1..Len(result)}

\* the tier attempted right after the i-th attempted tier exists
Followed(i) == i < Len(attempted)

\* C1: whatever the filters, the limit (at least 1) and the outcomes of the
\* remote search, the cache and the curated catalog, a finished search has
\* returned at least one recommendation.
C1_AtLeastOneRecommendation ==
    Returned => Len(result) >= 1

\* the remote search raised on every attempt, the cache gave nothing, the
\* curated catalog answered
C1_Witness ==
    /\ Returned
    /\ failures = max_retries + 1
    /\ attempted = <<"primary", "cache", "curated">>
    /\ Len(result) >= 1

C3_EmergencyIsSingleZero ==
    (/\ Returned
     /\ failures = max_retries + 1
     /\ scored["cache"] = "empty"
     /\ scored["curated"] = "empty")
    => /\ Len(result) = 1
       /\ result[1].source = "emergency_fallback"
       /\ result[1].relevance_score = 0

C3_Witness ==
    /\ Returned
    /\ failures = max_retries + 1
    /\ scored["cache"] = "empty"
    /\ scored["curated"] = "empty"
    /\ attempted = <<"primary", "cache", "curated", "emergency">>

\* C4: with a non-empty exclude list, no returned recommendation has an id
\* of the exclude list, whichever tier produced the result.
C4_ExcludedNeverReturned ==
    Returned => ResultIds \cap filters.exclude_ids = {}

\* C5 as stated: a later tier is attempted only if the tier before it
\* yielded fewer than 3 validated results.
C5_LaterTierOnlyBelowThree ==
    \A i \in 1..Len(attempted) : Followed(i) => validated[attempted[i]] < 3

\* C5, amended: a later tier is attempted only if the tier before it yielded
\* fewer than 3 validated results, or its scoring step raised or left no
\* recommendation.
C5_LaterTierOnlyWithoutResult ==
    \A i \in 1..Len(attempted) :
        Followed(i) => \/ validated[attempted[i]] < 3
                       \/ scored[attempted[i]] \in {"raised", "empty"}

\* the primary tier validated 3 results or more, its scoring left none, and
\* the cache tier was attempted
C5_Witness ==
    /\ Len(attempted) >= 2
    /\ validated["primary"] >= 3
    /\ scored["primary"] = "empty"

\* C6: the remote search is invoked at most 3 times per search call.
C6_AtMostThreeInvocations ==
    invocations <= 3

C6_Witness ==
    /\ Returned
    /\ invocations = 3
    /\ failures = 2

\* C7: the search returns at most limit recommendations, whichever tier
\* produced them.
C7_AtMostLimit ==
    Returned => Len(result) <= limit

\* the primary tier had more validated results than the limit
C7_Witness ==
    /\ Returned
    /\ attempted = <<"primary">>
    /\ validated["primary"] > limit
    /\ Len(result) = limit

\* C8: the returned list is in non-increasing order of relevance score.
C8_NonIncreasingScores ==
    Returned =>
        \A i \in 1..(Len(result) - 1) :
            result[i].relevance_score >= result[i + 1].relevance_score

C8_Witness ==
    /\ Returned
    /\ Len(result) >= 3
    /\ result[1].relevance_score > result[2].relevance_score
    /\ result[2].relevance_score > result[3].relevance_score

(***************************************************************************)
(* Properties of process_ai_response (specification SpecAI)                *)
(***************************************************************************)
Processed == aipc = "done"

HasObject == aiResponse.kind \in {"json", "mixed"}

\* the reply is empty, holds no JSON object, or holds one the structure
\* validation rejects
Unusable ==
    \/ ~HasObject
    \/ aiResponse.payload.genresKind # "list"
    \/ aiResponse.payload.intent \notin valid_intents
    \/ aiResponse.payload.confKind # "num"
    \/ aiResponse.payload.confidence < 0
    \/ aiResponse.payload.confidence > Unit

\* the confidence of the reply is a number outside [0, 1]
ConfidenceOutOfRange ==
    /\ HasObject
    /\ aiResponse.payload.confKind = "num"
    /\ (aiResponse.payload.confidence < 0 \/ aiResponse.payload.confidence > Unit)

\* the two records agree on everything but the confidence
SameButConfidence(f, g) ==
    [f EXCEPT !.confidence = 0] = [g EXCEPT !.confidence = 0]

C11_IdempotentOnValidOutput ==
    (Processed /\ round = 2) => outFilters = firstFilters

\* C12: after validation and calibration of a reply, no filters value has
\* intent recommendation together with a confidence below 0.5.
C12_NoLowConfidenceRecommendation ==
    (Processed /\ validation = "accepted") =>
        ~(outFilters.intent = "recommendation" /\ outFilters.confidence < 5000)

\* the reply asked for a recommendation, named a genre, and was calibrated
\* below 0.5
C12_Witness ==
    /\ Processed
    /\ validation = "accepted"
    /\ round = 1
    /\ aiResponse.payload.intent = "recommendation"
    /\ outFilters.genres # <<>>
    /\ outFilters.confidence < 5000
    /\ outFilters.intent = "clarification"

\* C13: for every non-empty query, the filters of the pattern extraction
\* have a confidence in [0, 1], and carry at least one genre, year range,
\* rating range or keyword unless their intent is clarification.
C13_ExtractionHasFiltersOrClarifies ==
    (Processed /\ validation = "rejected" /\ userQuery # <<>>) =>
        LET extracted == extract_keywords_with_patterns(userQuery)
        IN /\ 0 <= extracted.confidence /\ extracted.confidence <= Unit
           /\ SameButConfidence(outFilters, extracted)
           /\ HasFilters(extracted) \/ extracted.intent = "clarification"

Answered == aipc = "answered"

\* C14: whenever the classifier judges the query ambiguous, the search is
\* not invoked for it: the answer is a clarification whose recommendation
\* list is empty.
C14_AmbiguousNeverSearches ==
    (Answered /\ detect_ambiguous_query(outFilters, userQuery)) =>
        /\ ~response.searched
        /\ response.kind = "clarification"
        /\ response.intent = "clarification"
        /\ response.recommendations = <<>>

\* an accepted reply with specific filters and a confidence below 0.2 is
\* answered with a clarification
C14_Witness ==
    /\ Answered
    /\ validation = "accepted"
    /\ has_specific_filters(outFilters)
    /\ detect_ambiguous_query(outFilters, userQuery)
    /\ response.kind = "clarification"

\* the text of the query has at least 3 characters
AtLeastThreeChars(q) == Len(q) >= 2 \/ (Len(q) = 1 /\ LongWord(q[1]))

C16_ScoresWithinBounds ==
    Returned =>
        \A i \in 1..Len(result) :
            IF result[i].source = "emergency_fallback"
            THEN result[i].relevance_score = 0
            ELSE /\ result[i].relevance_score >= One \div 10
                 /\ result[i].relevance_score <= One

\* the primary tier scored and ranked a list
Transformed == transformed.ranked # <<>>

AboveFloor(r) == r.relevance_score > (3 * One) \div 10

\* C17: whenever at least 5 scored recommendations exist, every one scoring
\* at or below 0.3 is removed unless fewer than 3 would survive, in which
\* case none is removed; with fewer than 5 nothing is removed.
C17_QualityFloorFromFive ==
    Transformed =>
        LET ranked == transformed.ranked
            survivors == SelectSeq(ranked, AboveFloor)
        IN transformed.recommendations =
               IF Len(ranked) >= 5 /\ Len(survivors) >= 3
               THEN survivors ELSE ranked

\* C17, as the code has it: the floor applies once more than 5 scored
\* recommendations exist; with 5 or fewer nothing is removed.
C17_QualityFloorAboveFive ==
    Transformed =>
        LET ranked == transformed.ranked
            survivors == SelectSeq(ranked, AboveFloor)
        IN transformed.recommendations =
               IF Len(ranked) > 5 /\ Len(survivors) >= 3
               THEN survivors ELSE ranked

\* six recommendations were scored and the floor removed some of them
C17_Witness ==
    /\ Returned
    /\ Len(transformed.ranked) > 5
    /\ Len(transformed.recommendations) < Len(transformed.ranked)
    /\ Len(transformed.recommendations) >= 3

\* the payload for the remote search capability was built
PayloadBuilt == pc # "idle"

\* C18: for a search with limit L, the limit of the payload sent to the
\* remote search capability is exactly 2 * L.
C18_PayloadLimitIsTwiceLimit ==
    PayloadBuilt => payload.limit = 2 * limit

\* the reply holds an object that passes the structure validation once its
\* intent is a recognized one, and its own intent is not recognized
UnrecognizedIntentOnly ==
    /\ HasObject
    /\ aiResponse.payload.intent # Missing
    /\ aiResponse.payload.intent \notin valid_intents
    /\ _validate_json_structure(
           [aiResponse.payload EXCEPT !.intent = "recommendation"])

\* C19: a reply that is otherwise structurally valid but carries an
\* unrecognized intent is accepted, with its intent replaced by
\* recommendation.
C19_UnrecognizedIntentAccepted ==
    (Processed /\ round = 1 /\ UnrecognizedIntentOnly) =>
        /\ validation = "accepted"
        /\ outFilters =
               ParsedFilters([aiResponse.payload EXCEPT !.intent = "recommendation"])

\* a number that is no rating: outside [0, 10]
OutsideRatingRange(r) == r # Null /\ (r < 0 \/ r > 100)

\* the rating the query states before "estrellas", as written; Null if none
StatedRating(q) ==
    LET explicit == {i \in 1..(Len(q) - 1) :
                        NumberValue(q[i]) # Null /\ q[i + 1] = "estrellas"}
    IN IF explicit # {}
       THEN NumberValue(q[CHOOSE j \in explicit : \A k \in explicit : j <= k])
       ELSE Null

\* no rating bound of the reply that is outside [0, 10] is in the filters
PayloadRatingDiscarded ==
    /\ OutsideRatingRange(aiResponse.payload.rating_min)
           => outFilters.rating_range.min_rating = Null
    /\ OutsideRatingRange(aiResponse.payload.rating_max)
           => outFilters.rating_range.max_rating = Null

\* C20: a rating outside [0, 10] (e.g. 15.0), whether stated in the query or
\* present in a model payload, is discarded and not clamped: the resulting
\* rating range has no bound for it.
C20_OutOfRangeRatingDiscarded ==
    /\ (Processed /\ round = 1 /\ validation = "accepted")
           => PayloadRatingDiscarded
    /\ (Processed /\ validation = "rejected"
           /\ OutsideRatingRange(StatedRating(userQuery)))
           => outFilters.rating_range.min_rating = Null

\* C20, as the code has it: a rating outside [0, 10] in a model payload is
\* discarded; one stated in the query is clamped to the nearest bound.
C20_PayloadDiscardedQueryClamped ==
    /\ (Processed /\ round = 1 /\ validation = "accepted")
           => PayloadRatingDiscarded
    /\ (Processed /\ validation = "rejected"
           /\ OutsideRatingRange(StatedRating(userQuery)))
           => outFilters.rating_range =
                  RatingRange(Min(Max(StatedRating(userQuery), 0), 100), Null)

\* an accepted reply with a minimum rating of 15.0: the bound is gone
C20_Witness ==
    /\ Processed
    /\ round = 1
    /\ validation = "accepted"
    /\ aiResponse.payload.rating_min = 150
    /\ outFilters.rating_range.some
    /\ outFilters.rating_range.min_rating = Null

\* both bounds of a range are present
BothBounds(lo, hi) == lo # Null /\ hi # Null

\* C21: every year range and every rating range produced by extraction or
\* validation that has both bounds present satisfies min <= max: an
\* inverted pair of in-domain bounds of the payload, 0 included, is swapped.
C21_RangesOrdered ==
    Processed =>
        /\ (outFilters.year_range.some
               /\ BothBounds(outFilters.year_range.min_year,
                             outFilters.year_range.max_year))
              => outFilters.year_range.min_year <= outFilters.year_range.max_year
        /\ (outFilters.rating_range.some
               /\ BothBounds(outFilters.rating_range.min_rating,
                             outFilters.rating_range.max_rating))
              => outFilters.rating_range.min_rating
                     <= outFilters.rating_range.max_rating

\* C22: for the one-word query "algo" the extractor returns filters with
\* intent clarification and confidence at most 0.2.
C22_AlgoClarifiesAtLowConfidence ==
    (Processed /\ validation = "rejected" /\ userQuery = <<"algo">>) =>
        LET extracted == extract_keywords_with_patterns(userQuery)
        IN /\ SameButConfidence(outFilters, extracted)
           /\ extracted.intent = "clarification"
           /\ extracted.confidence <= 2000

(***************************************************************************)
(* Properties of _validate_and_normalize_movie_data (specification         *)
(* SpecNorm)                                                               *)
(***************************************************************************)
Normalized == normalized_movie # NotNormalized

C24_HandlerAlwaysAnswers ==
    /\ hpc # "raised"
    /\ hpc = "returned" => reply # NoReply
    /\ ~ENABLED NextHandler => hpc = "returned"

\* an event without info made process_query raise from its own except
\* clause, and handler answered with the 'error-session' dictionary
C24_Witness ==
    /\ hpc = "returned"
    /\ event.info = "none"
    /\ event.failing = Services \ {"environment"}
    /\ reply.kind = "error-session"

(***************************************************************************)
(* Properties of RateLimiter (specification SpecRate)                      *)
(***************************************************************************)
\* the requests of a history admitted in the 60 seconds that start at t
AdmittedFrom(history, t) ==
    {i \in DOMAIN history : t <= history[i] /\ history[i] < t + window_seconds}

\* C25: for every user and every sequence of requests, at most max_requests
\* (5) requests are admitted past the rate limiter within any sliding window
\* of 60 seconds.
C25_AtMostMaxRequestsPerWindow ==
    \A u \in Users : \A t \in 0..MaxClock :
        Cardinality(AdmittedFrom(admitted[u], t)) <= max_requests

\* a user had five requests admitted, a sixth rejected, and later requests
\* admitted when the first ones had left the window
C25_Witness ==
    \E u \in Users :
        /\ Len(admitted[u]) > max_requests
        /\ rejectedAt[u] # Null
        /\ \E t \in 0..MaxClock :
            Cardinality(AdmittedFrom(admitted[u], t)) = max_requests

Limited == lastCall.user # "none" /\ lastCall.limited

\* C26: every request that the rate limiter rejects is answered with the
\* rate-limit response: error 'Rate limit exceeded', fallbackUsed true,
\* confidence 0, no recommendations, and a rateLimitInfo that holds
\* maxRequests, windowSeconds, a currentCount of at least maxRequests and a
\* timeUntilReset of at least 0.
C26_RejectedGetsRateLimitResponse ==
    Limited =>
        /\ answer.error = "Rate limit exceeded"
        /\ answer.fallbackUsed
        /\ answer.confidence = 0
        /\ answer.recommendations = 0
        /\ answer.rateLimitInfo.maxRequests = max_requests
        /\ answer.rateLimitInfo.windowSeconds = window_seconds
        /\ answer.rateLimitInfo.currentCount >= max_requests
        /\ answer.rateLimitInfo.timeUntilReset >= 0

\* C30: a user who has been rate-limited is admitted again as soon as fewer
\* than max_requests of their admitted requests remain inside the 60 second
\* window: rejected requests are not recorded and never postpone the
\* readmission.
C30_ReadmittedWhenWindowHasRoom ==
    /\ (lastCall.user # "none" /\ lastCall.remaining < max_requests)
            => ~lastCall.limited
    /\ \A u \in Users : user_requests[u] = Recent(admitted[u],
            IF user_requests[u] = <<>> THEN clock + window_seconds
            ELSE user_requests[u][Len(user_requests[u])])

\* a user rejected 20 seconds ago, with two admitted requests still inside
\* the window, is admitted
C30_Witness ==
    /\ lastCall.user # "none"
    /\ ~lastCall.limited
    /\ lastCall.remaining = 2
    /\ rejectedAt[lastCall.user] = lastCall.time - 20

(***************************************************************************)
(* Properties of ChatSession and save_chat_session (specification          *)
(* SpecChat)                                                               *)
(***************************************************************************)
\* the n most recent of a sequence, in their order
MostRecent(seq, n) == SubSeq(seq, Len(seq) - n + 1, Len(seq))

\* C27: after n calls to add_message the session holds exactly min(n, 10)
\* messages, the most recent ones in their original order; the item that
\* save_chat_session writes holds at most 10 messages, the most recent
\* ones.
C27_LastTenMessagesKept ==
    /\ Len(messages) = Min(Len(added), 10)
    /\ messages = MostRecent(added, Len(messages))
    /\ item # NoItem =>
        LET n == Min(savedAfter, 10)
            kept == MostRecent(SubSeq(added, 1, savedAfter), n)
        IN  /\ Len(item.messages) <= 10
            /\ item.messages = [i \in 1..n |-> MessageToDict(kept[i])]
            /\ item.messageCount = n

\* twelve messages were added, the session holds the third to the twelfth,
\* and the item was written after the eleventh
C27_Witness ==
    /\ Len(added) = 12
    /\ Len(messages) = 10
    /\ messages[1].message_id = 3
    /\ savedAfter = 11
    /\ item.messageCount = 10
    /\ item.messages[1].messageId = 2

(***************************************************************************)
(* Properties of the cache tier as a function of filters and candidates    *)
(* (specification SpecTier)                                                *)
(***************************************************************************)
\* every run returned what the first run returned
SameEveryRun == \A i \in DOMAIN runs : runs[i] = runs[1]

\* a record as it was before the enhanced filter wrote its _cache_score
WithoutCacheScore(m) == [m EXCEPT !.cache_score = -1]

C29_EachMovieAtMostOnce ==
    \A i, j \in DOMAIN contentIds :
        contentIds[i] = contentIds[j] => i = j

====
